---- MODULE Spec2Model ----
(***************************************************************************)
(* Spaced-repetition core of the flashcard library (lib/flashcard.ts in    *)
(* src/gpa.ts, lib/evidence-learning.ts in src/evidence-learning.ts) and   *)
(* the weakness analyzer of lib/ai-enhanced.ts (src/ai-enhanced.ts), the   *)
(* progress events of the PDF card generator (src/unnamed/part_000) and    *)
(* the context trimming of the chat client (src/ai.ts).                    *)
(*                                                                         *)
(* Numbers.  easeFactor is a JavaScript number; the model keeps it in      *)
(* hundredths (2.5 is 250), which makes the SM-2 update exact: every term  *)
(* of 0.1 - (5-q)*(0.08 + (5-q)*0.02) is a multiple of 0.01.  Timestamps   *)
(* (ISO strings parsed back with new Date) are whole days counted from an  *)
(* arbitrary origin; toISOString and the Date constructor are inverse to   *)
(* each other on valid dates, and setDate(getDate() + n) adds n days.      *)
(***************************************************************************)
EXTENDS Integers, Sequences, FiniteSets, TLC

VARIABLES
    now,        \* the clock read by new Date(), in days
    card,       \* the Flashcard held by the caller (last value returned)
    input,      \* the Flashcard passed to the last calculateNextReview call, as the call left it
    quality,    \* the quality passed to the last call, NoQuality before any
    outcome,    \* "none", "returned" or "InvalidArgument": how the last call ended
    cards,      \* Flashcard[] handed to getDueCards / sortCardsForStudy
    queueOp,    \* "none", "due", "dueAgain" or "sorted": the last queue call
    queueIn,    \* the array the last queue call received
    queueOut,   \* the array the last queue call returned
    queueAt,    \* the clock value the last getDueCards call read
    queuePrevAt,\* the clock value the getDueCards call before it read
    fbArgs,     \* arguments of getAdaptiveFeedback (Omitted for a missing optional)
    fbResult,   \* AdaptiveFeedback returned, NoFeedback before the call
    pool,       \* FlashcardDeck[] handed to the composers and to the analyzer
    ilConfig,   \* InterleavedConfig of the last createInterleavedDeck call
    dpConfig,   \* DeliberatePracticeConfig of the last createDeliberatePracticeDeck call
    composed,   \* "none", "interleaved", "distributed" (interleaved, then its
                \* distribution analysed) or "deliberate": the calls made so far
    derived,    \* cards of the deck the composer returned
    distribution, \* result of analyzeInterleavedDistribution, NoDistribution before
    extraDeck,  \* the deck added to pool for the second analysis
    analysis,   \* result of analyzeWeaknessPatterns(pool), NoAnalysis before
    analysisWith, \* result of analyzeWeaknessPatterns(pool + extraDeck)
    questions,  \* MetacognitionQuestion[] handed to calculateMetacognitionScore
    answers,    \* the answers object: question id -> answer (NoAnswer when absent)
    score,      \* the number calculateMetacognitionScore returned
    scored,     \* TRUE once calculateMetacognitionScore has returned
    history,    \* the qualities of the reviews of the card so far, oldest first
    pdfRun,     \* the PDF run under way: which function, its arguments, the document
    pdfPc,      \* position of the run: "idle", "extracting", "analyzing",
                \* "generating", "chunks", "saving", "completing", "returned", "threw"
    processedPages, \* pages whose text has been extracted so far
    chunkIndex, \* loop index i of generateCardsFromText
    cardsGenerated, \* allCards.length of generateCardsFromText (reported as cardsGenerated)
    events,     \* the CardGenerationProgress events delivered to onProgress, in order
    messages,   \* ChatMessage[] handed to trimContext / fetchAIResponse
    maxMessages,\* maxMessages of the last trimContext call (Omitted for the default)
    trimmed,    \* the array trimContext returned
    trimCalled  \* "none", "trimContext", "fetchAIResponse" or "threw": the call made

reviewVars == <<card, input, quality, outcome>>
queueVars == <<cards, queueOp, queueIn, queueOut, queueAt, queuePrevAt>>
feedbackVars == <<fbArgs, fbResult>>
composeVars == <<pool, ilConfig, dpConfig, composed, derived, distribution>>
analysisVars == <<extraDeck, analysis, analysisWith>>
scoreVars == <<questions, answers, score, scored>>
historyVars == <<history>>
pdfVars == <<pdfRun, pdfPc, processedPages, chunkIndex, cardsGenerated, events>>
contextVars == <<messages, maxMessages, trimmed, trimCalled>>
restVars == <<scoreVars, historyVars, pdfVars, contextVars>>
vars == <<now, reviewVars, queueVars, feedbackVars, composeVars, analysisVars, restVars>>

----------------------------------------------------------------------------
(* Bounds of the model *)

MaxDay == 2
MaxEase == 270
MaxInterval == 16
MaxRepetitions == 4

----------------------------------------------------------------------------
(* Flashcard (lib/flashcard-types.ts) *)

Difficulties == {"easy", "medium", "hard"}

NoDate == -1
NoQuality == -100

\* A card as the application creates it: easeFactor 2.5, repetitions 0.
NewCard(id, ease, due) ==
    [id |-> id, difficulty |-> "medium", easeFactor |-> ease, interval |-> 1,
     repetitions |-> 0, nextReviewDate |-> due, lastReviewDate |-> NoDate,
     tags |-> <<>>]

----------------------------------------------------------------------------
(* calculateNextReview (SM-2) *)

MinEase == 130

\* Math.round(num / den) for den > 0: the nearest integer, halves upwards.
MathRound(num, den) == (2 * num + den) \div (2 * den)

\* 0.1 - (5 - q) * (0.08 + (5 - q) * 0.02), in hundredths
easeAdjustment(q) == 10 - (5 - q) * (8 + (5 - q) * 2)

\* Variant without the floor (the line "if (easeFactor < 1.3) easeFactor = 1.3" dropped).
clampEaseMissing(easeFactor) == easeFactor

clampEase(easeFactor) == IF easeFactor < MinEase THEN MinEase ELSE easeFactor

\* Variant that adjusts the ease only in the success branch.
nextEaseFactorOnSuccess(c, q) ==
    IF q < 3 THEN c.easeFactor ELSE clampEase(c.easeFactor + easeAdjustment(q))

nextEaseFactor(c, q) == clampEase(c.easeFactor + easeAdjustment(q))

\* Variant whose failure branch leaves the interval alone.
nextIntervalKeptOnFailure(c, q) ==
    IF q < 3 THEN c.interval
    ELSE IF c.repetitions = 0 THEN 1
    ELSE IF c.repetitions = 1 THEN 6
    ELSE MathRound(c.interval * c.easeFactor, 100)

\* Variant that multiplies by the ease factor after this review's adjustment.
nextIntervalNewEase(c, q) ==
    IF q < 3 THEN 1
    ELSE IF c.repetitions = 0 THEN 1
    ELSE IF c.repetitions = 1 THEN 6
    ELSE MathRound(c.interval * clampEase(c.easeFactor + easeAdjustment(q)), 100)

\* Variant whose failure branch schedules the card for the same day.
nextIntervalZeroOnFailure(c, q) ==
    IF q < 3 THEN 0
    ELSE IF c.repetitions = 0 THEN 1
    ELSE IF c.repetitions = 1 THEN 6
    ELSE MathRound(c.interval * c.easeFactor, 100)

nextInterval(c, q) ==
    IF q < 3 THEN 1
    ELSE IF c.repetitions = 0 THEN 1
    ELSE IF c.repetitions = 1 THEN 6
    ELSE MathRound(c.interval * c.easeFactor, 100)

\* Variant: a failed review keeps the repetition count.
nextRepetitionsKeptOnFailure(c, q) == IF q < 3 THEN c.repetitions ELSE c.repetitions + 1

nextRepetitions(c, q) == IF q < 3 THEN 0 ELSE c.repetitions + 1

\* Variant with the first threshold off by one (quality > 4).
difficultyOfStrict(q) == IF q > 4 THEN "easy" ELSE IF q >= 3 THEN "medium" ELSE "hard"

difficultyOf(q) == IF q >= 4 THEN "easy" ELSE IF q >= 3 THEN "medium" ELSE "hard"

calculateNextReview(c, q, today) ==
    [c EXCEPT !.easeFactor = nextEaseFactor(c, q),
              !.interval = nextInterval(c, q),
              !.repetitions = nextRepetitions(c, q),
              !.lastReviewDate = today,
              !.nextReviewDate = today + nextInterval(c, q),
              !.difficulty = difficultyOf(q)]

\* The argument object after the call: easeFactor, interval and repetitions
\* are destructured into locals, and the result is a new object literal
\* ({...card, ...}), so no field of card is assigned.
cardAfterReview(c, q) == c

----------------------------------------------------------------------------
(* The review loop: the caller reviews its card again and again, each call *)
(* applied to the card the previous call returned.                         *)

InitEases == {130, 137, 250}
InitIntervals == {1, 3, 6}
InitRepetitions == {0, 2}

InitCards ==
    {[NewCard(1, e, 0) EXCEPT !.interval = i, !.repetitions = r, !.difficulty = d] :
        e \in InitEases, i \in InitIntervals, r \in InitRepetitions, d \in Difficulties}

QueueIdle ==
    /\ cards = <<>>
    /\ queueOp = "none"
    /\ queueIn = <<>>
    /\ queueOut = <<>>
    /\ queueAt = NoDate
    /\ queuePrevAt = NoDate

Omitted == -1
NoFeedback == [level |-> "none", adjustedDifficulty |-> "none"]

FeedbackIdle ==
    /\ fbArgs = [isCorrect |-> FALSE, responseTimeMs |-> Omitted, streak |-> Omitted]
    /\ fbResult = NoFeedback

\* A JavaScript string is the sequence of its characters.  Undefined is the
\* value of a property that is absent; it is no string.
Undefined == <<"<undefined>">>

NoIlConfig == [deckIds |-> {}, cardsPerDeck |-> Omitted, shuffleMode |-> "none"]
NoDpConfig ==
    [focusAreas |-> <<>>, difficultyLevel |-> "none", maxCards |-> Omitted,
     adaptiveThreshold |-> Omitted]
NoDistribution == <<"<none>">>
NoDeck == [id |-> 0, name |-> <<>>, category |-> Undefined, cards |-> <<>>]
NoAnalysis == [called |-> FALSE]

ComposeIdle ==
    /\ pool = <<>>
    /\ ilConfig = NoIlConfig
    /\ dpConfig = NoDpConfig
    /\ composed = "none"
    /\ derived = <<>>
    /\ distribution = NoDistribution

AnalysisIdle ==
    /\ extraDeck = NoDeck
    /\ analysis = NoAnalysis
    /\ analysisWith = NoAnalysis

ScoreIdle ==
    /\ questions = <<>>
    /\ answers = <<>>
    /\ score = 0
    /\ scored = FALSE

HistoryIdle == history = <<>>

NoRun == [fn |-> "none", callback |-> FALSE, totalPages |-> 0, pageChunkSize |-> 0,
          textLength |-> 0, cardCount |-> 0]

PdfIdle ==
    /\ pdfRun = NoRun
    /\ pdfPc = "idle"
    /\ processedPages = 0
    /\ chunkIndex = 0
    /\ cardsGenerated = 0
    /\ events = <<>>

ContextIdle ==
    /\ messages = <<>>
    /\ maxMessages = Omitted
    /\ trimmed = <<>>
    /\ trimCalled = "none"

RestIdle == ScoreIdle /\ HistoryIdle /\ PdfIdle /\ ContextIdle

ReviewInit ==
    /\ now = 0
    /\ card \in InitCards
    /\ input = card
    /\ quality = NoQuality
    /\ outcome = "none"
    /\ QueueIdle
    /\ FeedbackIdle
    /\ ComposeIdle
    /\ AnalysisIdle
    /\ RestIdle

\* The model stops growing a card past its bounds; the code has no such limit.
WithinBounds(c) ==
    /\ c.easeFactor <= MaxEase
    /\ c.interval <= MaxInterval
    /\ c.repetitions <= MaxRepetitions

\* card = calculateNextReview(card, q): the function has no argument check and
\* no throw statement, so every call returns.
Review(q) ==
    /\ WithinBounds(calculateNextReview(card, q, now))
    /\ input' = cardAfterReview(card, q)
    /\ quality' = q
    /\ card' = calculateNextReview(card, q, now)
    /\ outcome' = "returned"
    /\ UNCHANGED <<now, queueVars, feedbackVars, composeVars, analysisVars, restVars>>

Tick ==
    /\ now < MaxDay
    /\ now' = now + 1
    /\ UNCHANGED <<reviewVars, queueVars, feedbackVars, composeVars, analysisVars, restVars>>

Qualities == 0..5

ReviewNext == Tick \/ \E q \in Qualities : Review(q)

Spec == ReviewInit /\ [][ReviewNext]_vars

\* The same loop with no validation in front of it: the quality is any number
\* the caller passes (the parameter's type is number).
AnyQualities == -1..6

AnyQualityNext == Tick \/ \E q \in AnyQualities : Review(q)

SpecAnyQuality == ReviewInit /\ [][AnyQualityNext]_vars


----------------------------------------------------------------------------
(* getDueCards and sortCardsForStudy *)

MaxCards == 3

\* Variant with a strict comparison (a card due exactly now is left out).
getDueCardsStrict(cs, today) == SelectSeq(cs, LAMBDA c : c.nextReviewDate < today)

\* Array.prototype.filter: the elements that pass, in their order.
getDueCards(cs, today) == SelectSeq(cs, LAMBDA c : c.nextReviewDate <= today)

\* The argument array after the call: filter builds a new array.
cardsAfterGetDue(cs) == cs

\* diffMap[d] ?? 1
diffMap(d) == CASE d = "hard" -> 0 [] d = "medium" -> 1 [] d = "easy" -> 2 [] OTHER -> 1

\* Variant without the difficulty tie-break.
compareCardsNoDifficulty(a, b) ==
    LET dateDiff == a.nextReviewDate - b.nextReviewDate
    IN  IF dateDiff # 0 THEN dateDiff ELSE a.easeFactor - b.easeFactor

\* The comparator handed to sort: negative when a goes first.
compareCards(a, b) ==
    LET dateDiff == a.nextReviewDate - b.nextReviewDate
        diffDiff == diffMap(a.difficulty) - diffMap(b.difficulty)
    IN  IF dateDiff # 0 THEN dateDiff
        ELSE IF diffDiff # 0 THEN diffDiff
        ELSE a.easeFactor - b.easeFactor

\* Array.prototype.sort is stable: an element moves in front of another only
\* when the comparator puts it strictly before.  Insert c behind every element
\* of the sorted sequence s that is not strictly after it.
RECURSIVE InsertSorted(_, _)
InsertSorted(s, c) ==
    IF s = <<>> THEN <<c>>
    ELSE IF compareCards(c, Head(s)) < 0 THEN <<c>> \o s
    ELSE <<Head(s)>> \o InsertSorted(Tail(s), c)

RECURSIVE StableSort(_)
StableSort(s) ==
    IF s = <<>> THEN <<>>
    ELSE InsertSorted(StableSort(SubSeq(s, 1, Len(s) - 1)), s[Len(s)])

\* [...cards].sort(comparator): a sorted copy
sortCardsForStudy(cs) == StableSort(cs)

\* Variant: cards.sort(...) without the copy sorts the argument in place.
cardsAfterSortInPlace(cs) == StableSort(cs)

\* The argument array after the call: sort works on the copy [...cards].
cardsAfterSort(cs) == cs

QueueDates == {1, 2}
QueueEases == {130, 250}

QueueCard(i, due, d, e) == [NewCard(i, e, due) EXCEPT !.difficulty = d]

\* Arrays of at most MaxCards cards; the card at position i has id i.
QueueCardLists ==
    UNION {{[i \in 1..n |-> QueueCard(i, k[i][1], k[i][2], k[i][3])] :
                k \in [1..n -> QueueDates \X Difficulties \X QueueEases]} :
           n \in 0..MaxCards}

ReviewIdle ==
    /\ card = NewCard(1, 250, 0)
    /\ input = card
    /\ quality = NoQuality
    /\ outcome = "none"

QueueInit ==
    /\ now = 0
    /\ cards \in QueueCardLists
    /\ queueOp = "none"
    /\ queueIn = <<>>
    /\ queueOut = <<>>
    /\ queueAt = NoDate
    /\ queuePrevAt = NoDate
    /\ ReviewIdle
    /\ FeedbackIdle
    /\ ComposeIdle
    /\ AnalysisIdle
    /\ RestIdle

\* due = getDueCards(cards)
GetDueCards ==
    /\ queueOp' = "due"
    /\ queueIn' = cards
    /\ queueOut' = getDueCards(cards, now)
    /\ queueAt' = now
    /\ queuePrevAt' = NoDate
    /\ cards' = cardsAfterGetDue(cards)
    /\ UNCHANGED <<now, reviewVars, feedbackVars, composeVars, analysisVars, restVars>>

\* due = getDueCards(due): the function applied to its own result
GetDueCardsAgain ==
    /\ queueOp \in {"due", "dueAgain"}
    /\ queueOp' = "dueAgain"
    /\ queueIn' = queueOut
    /\ queueOut' = getDueCards(queueOut, now)
    /\ queuePrevAt' = queueAt
    /\ queueAt' = now
    /\ UNCHANGED <<now, cards, reviewVars, feedbackVars, composeVars, analysisVars, restVars>>

\* sorted = sortCardsForStudy(cards)
SortCardsForStudy ==
    /\ queueOp' = "sorted"
    /\ queueIn' = cards
    /\ queueOut' = sortCardsForStudy(cards)
    /\ queueAt' = NoDate
    /\ queuePrevAt' = NoDate
    /\ cards' = cardsAfterSort(cards)
    /\ UNCHANGED <<now, reviewVars, feedbackVars, composeVars, analysisVars, restVars>>

QueueNext == Tick \/ GetDueCards \/ GetDueCardsAgain \/ SortCardsForStudy

SpecQueue == QueueInit /\ [][QueueNext]_vars

----------------------------------------------------------------------------
(* getAdaptiveFeedback *)

fastThreshold == 8000

\* A parameter with a default value: the default replaces undefined.  Omitted
\* stands for undefined; the arguments the model passes are all >= 0.
withDefault(x, d) == IF x = Omitted THEN d ELSE x

Feedback(level, adjusted) == [level |-> level, adjustedDifficulty |-> adjusted]

\* Variant whose first branch asks for a streak above 2.
getAdaptiveFeedbackLongStreak(isCorrect, responseTimeMsArg, streakArg) ==
    LET responseTimeMs == withDefault(responseTimeMsArg, 10000)
        streak == withDefault(streakArg, 0)
    IN  IF isCorrect /\ responseTimeMs < fastThreshold /\ streak > 2
            THEN Feedback("excellent", "easy")
        ELSE IF isCorrect /\ responseTimeMs < fastThreshold
            THEN Feedback("good", "easy")
        ELSE IF isCorrect
            THEN Feedback("good", "medium")
        ELSE IF streak = 0
            THEN Feedback("struggling", "hard")
        ELSE Feedback("needs_review", "medium")

\* The card argument is not read; message and suggestedAction are fixed texts
\* of the branch and are left out.
getAdaptiveFeedback(isCorrect, responseTimeMsArg, streakArg) ==
    LET responseTimeMs == withDefault(responseTimeMsArg, 10000)
        streak == withDefault(streakArg, 0)
    IN  IF isCorrect /\ responseTimeMs < fastThreshold /\ streak >= 2
            THEN Feedback("excellent", "easy")
        ELSE IF isCorrect /\ responseTimeMs < fastThreshold
            THEN Feedback("good", "easy")
        ELSE IF isCorrect
            THEN Feedback("good", "medium")
        ELSE IF streak = 0
            THEN Feedback("struggling", "hard")
        ELSE Feedback("needs_review", "medium")

ResponseTimes == {Omitted, 0, 3000, 7999, 8000, 8001, 10000, 12000}
Streaks == {Omitted, 0, 1, 2, 3}

FeedbackInit ==
    /\ now = 0
    /\ fbArgs \in [isCorrect : BOOLEAN, responseTimeMs : ResponseTimes, streak : Streaks]
    /\ fbResult = NoFeedback
    /\ ReviewIdle
    /\ QueueIdle
    /\ ComposeIdle
    /\ AnalysisIdle
    /\ RestIdle

GetAdaptiveFeedback ==
    /\ fbResult' = getAdaptiveFeedback(fbArgs.isCorrect, fbArgs.responseTimeMs, fbArgs.streak)
    /\ UNCHANGED <<now, fbArgs, reviewVars, queueVars, composeVars, analysisVars, restVars>>

FeedbackNext == GetAdaptiveFeedback

SpecFeedback == FeedbackInit /\ [][FeedbackNext]_vars

----------------------------------------------------------------------------
(* Decks (FlashcardDeck) and createInterleavedDeck *)

MaxPoolDecks == 3
MaxDeckSize == 3
MaxShuffle == 3

NameChars == <<"p", "q", "r", "s", "t", "u">>

\* Deck i is named "dp", "dq", ...: the names of a pool are pairwise distinct.
DeckName(i) == <<"d", NameChars[i]>>

Deck(i, category, cs) ==
    [id |-> i, name |-> DeckName(i), category |-> category, cards |-> cs]

\* n cards of deck i; card j has id 10 * i + j, so ids are distinct in a pool.
PlainCards(i, n) == [j \in 1..n |-> NewCard(10 * i + j, 250, 0)]

Min(a, b) == IF a <= b THEN a ELSE b
Max(a, b) == IF a >= b THEN a ELSE b

\* x ? ... : ... on an optional number: undefined and 0 are falsy.
Truthy(x) == x # Omitted /\ x # 0

\* Array.prototype.slice(0, end); a negative end counts from the end.
sliceTo(s, end) ==
    SubSeq(s, 1, IF end < 0 THEN Max(Len(s) + end, 0) ELSE Min(end, Len(s)))

RECURSIVE Concat(_)
Concat(ss) == IF ss = <<>> THEN <<>> ELSE Head(ss) \o Concat(Tail(ss))

\* deckIds && deckIds.length > 0 ? allDecks.filter(d => deckIds.includes(d.id)) : allDecks
targetDecks(allDecks, deckIds) ==
    IF deckIds # {} THEN SelectSeq(allDecks, LAMBDA d : d.id \in deckIds) ELSE allDecks

\* cardsPerDeck ? cards.slice(0, cardsPerDeck) : cards, for each target deck
cardGroups(targets, cardsPerDeck) ==
    [g \in DOMAIN targets |->
        IF Truthy(cardsPerDeck) THEN sliceTo(targets[g].cards, cardsPerDeck)
        ELSE targets[g].cards]

\* Math.max(...lengths, 0)
maxLen(groups) ==
    IF groups = <<>> THEN 0
    ELSE CHOOSE m \in {Len(groups[g]) : g \in DOMAIN groups} :
            \A g \in DOMAIN groups : Len(groups[g]) <= m

\* One pass of the inner forEach: card i of every group that has one.
roundOf(groups, i) ==
    Concat([g \in DOMAIN groups |->
               IF i <= Len(groups[g]) THEN <<groups[g][i]>> ELSE <<>>])

\* Variant that empties one group after the other.
roundRobinByGroup(groups) == Concat(groups)

\* Variant that walks the groups from last to first in every pass.
roundRobinBackwards(groups) ==
    Concat([i \in 1..maxLen(groups) |->
               roundOf([g \in DOMAIN groups |-> groups[Len(groups) + 1 - g]], i)])

\* for (i = 0; i < maxLen; i++) cardGroups.forEach(...)
roundRobin(groups) == Concat([i \in 1..maxLen(groups) |-> roundOf(groups, i)])

Swap(s, i, j) == [s EXCEPT ![i] = s[j], ![j] = s[i]]

\* The Fisher-Yates loop from position i down to 2; js[i] is the position
\* Math.floor(Math.random() * (i + 1)) picks, one of 1..i.
RECURSIVE shuffleFrom(_, _, _)
shuffleFrom(s, js, i) == IF i < 2 THEN s ELSE shuffleFrom(Swap(s, i, js[i]), js, i - 1)

\* The draws the random source can deliver for n cards.
RandomDraws(n) == {js \in [2..n -> 1..n] : \A i \in 2..n : js[i] <= i}

selectedGroups(allDecks, config) ==
    cardGroups(targetDecks(allDecks, config.deckIds), config.cardsPerDeck)

\* The cards of the returned deck.  Every shuffleMode other than 'round-robin'
\* takes the else branch: there is no third branch and no throw.
createInterleavedDeck(allDecks, config, js) ==
    LET groups == selectedGroups(allDecks, config)
    IN  IF config.shuffleMode = "round-robin" THEN roundRobin(groups)
        ELSE shuffleFrom(Concat(groups), js, Len(Concat(groups)))

\* FlashcardDeck declares name and no title, and nothing in the library sets a
\* title on a deck: d.title evaluates to undefined.
deckTitle(d) == Undefined

EtcLabel == <<"e", "t", "c">>

\* cardToDeck[id]: the title of the last deck of allDecks holding a card with
\* this id, undefined when no deck holds one.
cardToDeck(allDecks, id) ==
    LET holders == {k \in DOMAIN allDecks :
                       \E j \in DOMAIN allDecks[k].cards : allDecks[k].cards[j].id = id}
    IN  IF holders = {} THEN Undefined
        ELSE deckTitle(allDecks[CHOOSE k \in holders : \A h \in holders : h <= k])

\* cardToDeck[card.id] || 'etc' (the literal in the source is a Korean word)
distributionLabel(allDecks, c) ==
    LET t == cardToDeck(allDecks, c.id)
    IN  IF t = Undefined \/ t = <<>> THEN EtcLabel ELSE t

\* The Record returned: one key per label met, with the number of cards.
analyzeInterleavedDistribution(deckCards, allDecks) ==
    LET labels == {distributionLabel(allDecks, deckCards[k]) : k \in DOMAIN deckCards}
    IN  [l \in labels |->
            Cardinality({k \in DOMAIN deckCards :
                            distributionLabel(allDecks, deckCards[k]) = l})]

InterleavePools ==
    UNION {{[i \in 1..n |-> Deck(i, Undefined, PlainCards(i, size[i]))] :
                size \in [1..n -> 0..MaxDeckSize]} :
           n \in 0..MaxPoolDecks}

\* undefined is written "undefined" here; 'weighted' is a member of the type.
ShuffleModes == {"round-robin", "random", "weighted", "undefined"}

InterleavedConfigs ==
    [deckIds : SUBSET {1, 2, 3},
     cardsPerDeck : {Omitted, 0, 1, 2},
     shuffleMode : ShuffleModes]

InterleaveInit ==
    /\ now = 0
    /\ pool \in InterleavePools
    /\ ilConfig = NoIlConfig
    /\ dpConfig = NoDpConfig
    /\ composed = "none"
    /\ derived = <<>>
    /\ distribution = NoDistribution
    /\ ReviewIdle
    /\ QueueIdle
    /\ FeedbackIdle
    /\ AnalysisIdle
    /\ RestIdle

\* The argument decks after the call: the groups are only read (a group is
\* deck.cards itself when there is no cap), the cards are pushed into the new
\* array interleavedCards, and the shuffle swaps elements of that array.
decksAfterInterleave(allDecks, config, js) == allDecks

\* derived = createInterleavedDeck(pool, config).cards, called once on the pool.
\* The model shuffles at most MaxShuffle cards.
CreateInterleavedDeck ==
    \E config \in InterleavedConfigs :
        LET n == Len(Concat(selectedGroups(pool, config)))
        IN  /\ composed = "none"
            /\ config.shuffleMode # "round-robin" => n <= MaxShuffle
            /\ \E js \in RandomDraws(IF config.shuffleMode = "round-robin" THEN 1 ELSE n) :
                   /\ derived' = createInterleavedDeck(pool, config, js)
                   /\ pool' = decksAfterInterleave(pool, config, js)
            /\ ilConfig' = config
            /\ composed' = "interleaved"
            /\ distribution' = NoDistribution
            /\ UNCHANGED <<now, dpConfig, reviewVars, queueVars, feedbackVars,
                           analysisVars, restVars>>

\* distribution = analyzeInterleavedDistribution(derived deck, pool)
AnalyzeInterleavedDistribution ==
    /\ composed = "interleaved"
    /\ composed' = "distributed"
    /\ distribution' = analyzeInterleavedDistribution(derived, pool)
    /\ UNCHANGED <<now, pool, ilConfig, dpConfig, derived, reviewVars,
                   queueVars, feedbackVars, analysisVars, restVars>>

InterleaveNext == CreateInterleavedDeck \/ AnalyzeInterleavedDistribution

SpecInterleave == InterleaveInit /\ [][InterleaveNext]_vars

----------------------------------------------------------------------------
(* createDeliberatePracticeDeck *)

MaxFocusCards == 2
MaxLargeDeck == 6

\* String.prototype.toLowerCase on the letters the model uses.
lowerChar(ch) ==
    CASE ch = "A" -> "a" [] ch = "B" -> "b" [] ch = "C" -> "c" [] OTHER -> ch

toLowerCase(str) == [i \in DOMAIN str |-> lowerChar(str[i])]

\* String.prototype.includes: sub occurs in str as a contiguous run.
stringIncludes(str, sub) ==
    \E i \in 0..(Len(str) - Len(sub)) : SubSeq(str, i + 1, i + Len(sub)) = sub

\* Array.prototype.includes
arrayIncludes(arr, x) == \E k \in DOMAIN arr : arr[k] = x

\* x || '' on an optional string
orEmpty(x) == IF x = Undefined THEN <<>> ELSE x

\* Flashcard declares no category: card.category is undefined and the deck's
\* category is the one used.
cardCategory(c, deck) == toLowerCase(orEmpty(deck.category))

\* focusAreas.some(area => cardTags.includes(area.toLowerCase()) ||
\*                         cardCategory.includes(area.toLowerCase()))
focusMatched(c, deck, focusAreas) ==
    LET cardTags == [k \in DOMAIN c.tags |-> toLowerCase(c.tags[k])]
    IN  \E a \in DOMAIN focusAreas :
            \/ arrayIncludes(cardTags, toLowerCase(focusAreas[a]))
            \/ stringIncludes(cardCategory(c, deck), toLowerCase(focusAreas[a]))

\* The first pass: the cards pushed to allCards, in pool encounter order.
collectCards(allDecks, focusAreas) ==
    Concat([d \in DOMAIN allDecks |->
               SelectSeq(allDecks[d].cards,
                         LAMBDA c : focusAreas # <<>> => focusMatched(c, allDecks[d], focusAreas))])

difficultyToNumber(difficulty) ==
    CASE difficulty = "easy" -> 1 [] difficulty = "medium" -> 2
      [] difficulty = "hard" -> 3 [] OTHER -> 2

\* Variant with the upper threshold inclusive (ef <= 2.5 is medium).
cardDiffNumInclusive(ef) == IF ef < 200 THEN 3 ELSE IF ef <= 250 THEN 2 ELSE 1

\* ef < 2.0 ? 3 : ef < 2.5 ? 2 : 1
cardDiffNum(ef) == IF ef < 200 THEN 3 ELSE IF ef < 250 THEN 2 ELSE 1

Abs(x) == IF x < 0 THEN -x ELSE x

\* The second pass; difficultyLevel "none" stands for undefined.
filterDifficulty(allCards, difficultyLevel, adaptiveThreshold) ==
    IF difficultyLevel = "none" THEN allCards
    ELSE SelectSeq(allCards,
                   LAMBDA c : Abs(cardDiffNum(c.easeFactor) - difficultyToNumber(difficultyLevel))
                                  <= withDefault(adaptiveThreshold, 0))

DefaultMaxCards == 20

\* maxCards || 20: undefined and 0 give 20
cardLimit(maxCards) == IF Truthy(maxCards) THEN maxCards ELSE DefaultMaxCards

\* The cards of the returned deck.
createDeliberatePracticeDeck(allDecks, config) ==
    sliceTo(filterDifficulty(collectCards(allDecks, config.focusAreas),
                             config.difficultyLevel, config.adaptiveThreshold),
            cardLimit(config.maxCards))

\* derived = createDeliberatePracticeDeck(pool, config).cards, called once
\* The argument decks after the call: the cards are pushed into the new array
\* allCards; filter and slice build new arrays.
decksAfterDeliberate(allDecks, config) == allDecks

CreateDeliberatePracticeDeck(Configs) ==
    \E config \in Configs :
        /\ composed = "none"
        /\ dpConfig' = config
        /\ derived' = createDeliberatePracticeDeck(pool, config)
        /\ pool' = decksAfterDeliberate(pool, config)
        /\ composed' = "deliberate"
        /\ UNCHANGED <<now, ilConfig, distribution, reviewVars, queueVars,
                       feedbackVars, analysisVars, restVars>>

ComposeInit(Pools) ==
    /\ now = 0
    /\ pool \in Pools
    /\ ilConfig = NoIlConfig
    /\ dpConfig = NoDpConfig
    /\ composed = "none"
    /\ derived = <<>>
    /\ distribution = NoDistribution
    /\ ReviewIdle
    /\ QueueIdle
    /\ FeedbackIdle
    /\ AnalysisIdle
    /\ RestIdle

\* Filtering: one deck of at most MaxFocusCards cards that differ in tags and
\* ease factor, under every combination of focus topics, level and tolerance.
TagLists == {<<>>, << <<"A", "B">> >>, << <<"c">>, <<"a", "b", "c">> >>}
Categories == {Undefined, <<"A", "b", "c">>, <<"b">>}
FocusLists == {<<>>, << <<"a", "b">> >>, << <<"x">>, <<"C">> >>, << <<>> >>}
FilterEases == {199, 200, 249, 250}

FilterCard(id, tags, ease) == [NewCard(id, ease, 0) EXCEPT !.tags = tags]

FilterPools ==
    UNION {{<<Deck(1, category,
                   [j \in 1..n |-> FilterCard(10 + j, k[j][1], k[j][2])])>> :
                category \in Categories, k \in [1..n -> TagLists \X FilterEases]} :
           n \in 0..MaxFocusCards}

FilterConfigs ==
    [focusAreas : FocusLists,
     difficultyLevel : {"none", "easy", "medium", "hard"},
     maxCards : {Omitted, 1},
     adaptiveThreshold : {Omitted, 0, 1}]

DeliberateNext == CreateDeliberatePracticeDeck(FilterConfigs)

SpecDeliberate == ComposeInit(FilterPools) /\ [][DeliberateNext]_vars

\* Truncation: two decks of up to MaxLargeDeck cards; in a deck every card is
\* hard (ease 1.5), or every second one is easy (ease 2.5).
LargeCards(i, n, mixed) ==
    [j \in 1..n |-> NewCard(10 * i + j, IF mixed /\ j % 2 = 0 THEN 250 ELSE 150, 0)]

LargePools ==
    {<<Deck(1, Undefined, LargeCards(1, n1, m1)), Deck(2, Undefined, LargeCards(2, n2, m2))>> :
        n1 \in 0..MaxLargeDeck, n2 \in 0..MaxLargeDeck, m1 \in BOOLEAN, m2 \in BOOLEAN}

TruncateConfigs ==
    [focusAreas : {<<>>},
     difficultyLevel : {"none", "hard"},
     maxCards : {Omitted, 0, 1, 2, 5},
     adaptiveThreshold : {Omitted}]

TruncateNext == CreateDeliberatePracticeDeck(TruncateConfigs)

SpecTruncate == ComposeInit(LargePools) /\ [][TruncateNext]_vars

----------------------------------------------------------------------------
(* analyzeWeaknessPatterns (lib/ai-enhanced.ts)                            *)
(*                                                                         *)
(* accuracy, errorRate and weakRatio are quotients of small integers; the  *)
(* model keeps numerator and denominator and compares by cross             *)
(* multiplication, which agrees with the double comparison of the code for *)
(* every count the model reaches.                                          *)

MaxStudyDecks == 2

\* A card as the analyzer reads it: repetitions and easeFactor.
StudyCard(id, repetitions, easeFactor) ==
    [id |-> id, repetitions |-> repetitions, easeFactor |-> easeFactor]

\* String(x) for a value used as a property key: undefined becomes "undefined".
UndefinedKey == <<"u", "n", "d", "e", "f", "i", "n", "e", "d">>
propertyKey(x) == IF x = Undefined THEN UndefinedKey ELSE x

\* deck.category || deck.title
chapterLabel(deck) ==
    IF deck.category # Undefined /\ deck.category # <<>> THEN deck.category
    ELSE deckTitle(deck)

\* ef >= 2.5 ? 0.8 : ef >= 2.0 ? 0.5 : 0.2, in tenths
successRate(ef) == IF ef >= 250 THEN 8 ELSE IF ef >= 200 THEN 5 ELSE 2

\* Variant: Math.floor in place of Math.round.
cardCorrectFloor(c) == (c.repetitions * successRate(c.easeFactor)) \div 10

\* Math.round(repetitions * successRate)
cardCorrect(c) == MathRound(c.repetitions * successRate(c.easeFactor), 10)

RECURSIVE deckTotal(_)
deckTotal(cs) == IF cs = <<>> THEN 0 ELSE Head(cs).repetitions + deckTotal(Tail(cs))

RECURSIVE deckCorrect(_)
deckCorrect(cs) == IF cs = <<>> THEN 0 ELSE cardCorrect(Head(cs)) + deckCorrect(Tail(cs))

\* One pass of decks.forEach over chapterStats, kept as the list of its
\* entries in the order the keys were created.
addDeck(stats, deck) ==
    LET key == propertyKey(chapterLabel(deck))
        t == deckTotal(deck.cards)
        c == deckCorrect(deck.cards)
    IN  IF \E k \in DOMAIN stats : stats[k].chapter = key
        THEN [k \in DOMAIN stats |->
                 IF stats[k].chapter = key
                 THEN [chapter |-> key, total |-> stats[k].total + t,
                       correct |-> stats[k].correct + c]
                 ELSE stats[k]]
        ELSE Append(stats, [chapter |-> key, total |-> t, correct |-> c])

RECURSIVE collectStats(_, _)
collectStats(decks, stats) ==
    IF decks = <<>> THEN stats ELSE collectStats(Tail(decks), addDeck(stats, Head(decks)))

\* Keys that are canonical array indices come first in Object.entries, in
\* ascending numeric order; all other keys follow in creation order.
DigitChars == <<"0", "1", "2", "3", "4", "5", "6", "7", "8", "9">>
digitValue(ch) == (CHOOSE k \in DOMAIN DigitChars : DigitChars[k] = ch) - 1
isDigit(ch) == \E k \in DOMAIN DigitChars : DigitChars[k] = ch
isIndexKey(key) ==
    /\ key # <<>>
    /\ \A k \in DOMAIN key : isDigit(key[k])
    /\ (Len(key) > 1 => key[1] # "0")

RECURSIVE keyNumber(_)
keyNumber(key) ==
    IF key = <<>> THEN 0
    ELSE 10 * keyNumber(SubSeq(key, 1, Len(key) - 1)) + digitValue(key[Len(key)])

RECURSIVE insertByIndex(_, _)
insertByIndex(s, e) ==
    IF s = <<>> THEN <<e>>
    ELSE IF keyNumber(e.chapter) < keyNumber(Head(s).chapter) THEN <<e>> \o s
    ELSE <<Head(s)>> \o insertByIndex(Tail(s), e)

RECURSIVE sortByIndex(_)
sortByIndex(s) ==
    IF s = <<>> THEN <<>> ELSE insertByIndex(sortByIndex(SubSeq(s, 1, Len(s) - 1)), s[Len(s)])

objectEntries(stats) ==
    sortByIndex(SelectSeq(stats, LAMBDA e : isIndexKey(e.chapter)))
        \o SelectSeq(stats, LAMBDA e : ~isIndexKey(e.chapter))

\* Variant: accuracy > 0.8 in place of accuracy >= 0.8.
isStrongAbove(correct, total) == 5 * correct > 4 * total

\* accuracy >= 0.8 with accuracy = correct / total
isStrong(correct, total) == 5 * correct >= 4 * total

\* errorRate >= 0.6 ? 'high' : errorRate >= 0.4 ? 'medium' : 'low'
\* with errorRate = 1 - correct / total
priorityOf(correct, total) ==
    IF 5 * (total - correct) >= 3 * total THEN "high"
    ELSE IF 5 * (total - correct) >= 2 * total THEN "medium"
    ELSE "low"

recommendedActions(priority) ==
    CASE priority = "high" -> <<"relearn basics", "review related cards", "understand, not memorise">>
      [] priority = "medium" -> <<"shorten interval", "practise similar problems">>
      [] priority = "low" -> <<"keep regular review">>

weakArea(e) ==
    [chapter |-> e.chapter,
     errorRate |-> [num |-> e.total - e.correct, den |-> e.total],
     priority |-> priorityOf(e.correct, e.total),
     recommendedActions |-> recommendedActions(priorityOf(e.correct, e.total))]

pOrder(priority) ==
    CASE priority = "high" -> 0 [] priority = "medium" -> 1 [] priority = "low" -> 2

\* overallWeakAreas.sort((a, b) => pOrder[a.priority] - pOrder[b.priority]): stable
RECURSIVE insertByPriority(_, _)
insertByPriority(s, w) ==
    IF s = <<>> THEN <<w>>
    ELSE IF pOrder(w.priority) - pOrder(Head(s).priority) < 0 THEN <<w>> \o s
    ELSE <<Head(s)>> \o insertByPriority(Tail(s), w)

RECURSIVE sortByPriority(_)
sortByPriority(s) ==
    IF s = <<>> THEN <<>>
    ELSE insertByPriority(sortByPriority(SubSeq(s, 1, Len(s) - 1)), s[Len(s)])

RECURSIVE sumTotal(_)
sumTotal(es) == IF es = <<>> THEN 0 ELSE Head(es).total + sumTotal(Tail(es))

RECURSIVE sumCorrect(_)
sumCorrect(es) == IF es = <<>> THEN 0 ELSE Head(es).correct + sumCorrect(Tail(es))

\* Variant: weakRatio <= 0.6 in place of weakRatio < 0.6.
trendOfInclusive(weak, keys) ==
    LET den == IF keys # 0 THEN keys ELSE 1
    IN  IF 10 * weak < 3 * den THEN "improving"
        ELSE IF 10 * weak <= 6 * den THEN "stable"
        ELSE "declining"

\* weakRatio < 0.3 ? 'improving' : weakRatio < 0.6 ? 'stable' : 'declining'
\* with weakRatio = weak / (keys || 1)
trendOf(weak, keys) ==
    LET den == IF keys # 0 THEN keys ELSE 1
    IN  IF 10 * weak < 3 * den THEN "improving"
        ELSE IF 10 * weak < 6 * den THEN "stable"
        ELSE "declining"

recommendationsOf(weak, strong, totalCorrect, totalCards) ==
    (IF weak # <<>> THEN << <<"focus on weak", weak[1].chapter>> >> ELSE <<>>)
        \o (IF strong # <<>> THEN << <<"stretch strong", strong[1]>> >> ELSE <<>>)
        \o (IF totalCards = 0 \/ 5 * totalCorrect < 3 * totalCards
            THEN << <<"strengthen basics", <<>> >> >> ELSE <<>>)
        \o << <<"thirty minutes a day", <<>> >>, <<"alternate strong and weak", <<>> >> >>

analyzeWeaknessPatterns(decks) ==
    LET chapterStats == collectStats(decks, <<>>)
        attempted == SelectSeq(objectEntries(chapterStats), LAMBDA e : e.total # 0)
        strong == SelectSeq(attempted, LAMBDA e : isStrong(e.correct, e.total))
        weak == SelectSeq(attempted, LAMBDA e : ~isStrong(e.correct, e.total))
        strongAreas == [k \in DOMAIN strong |-> strong[k].chapter]
        overallWeakAreas == sortByPriority([k \in DOMAIN weak |-> weakArea(weak[k])])
        totalCards == sumTotal(attempted)
        totalCorrectCards == sumCorrect(attempted)
    IN  [called |-> TRUE,
         averageAccuracy |->
             IF totalCards > 0 THEN [num |-> totalCorrectCards, den |-> totalCards]
             ELSE [num |-> 0, den |-> 1],
         strongAreas |-> strongAreas,
         overallWeakAreas |-> overallWeakAreas,
         improvementTrend |-> trendOf(Len(overallWeakAreas), Len(chapterStats)),
         recommendations |->
             recommendationsOf(overallWeakAreas, strongAreas, totalCorrectCards, totalCards)]

\* Review histories of a deck, as lists of (repetitions, easeFactor):
\* none, never reviewed, 4/5, 3/5, 1/5, 2/3, 3/4 and 4/10 correct.
Histories ==
    {<<>>,
     << <<0, 250>> >>,
     << <<5, 250>> >>,
     << <<5, 200>> >>,
     << <<5, 150>> >>,
     << <<3, 250>> >>,
     << <<4, 250>>, <<0, 150>> >>,
     << <<5, 200>>, <<5, 150>> >>}

StudyCards(i, h) == [j \in DOMAIN h |-> StudyCard(10 * i + j, h[j][1], h[j][2])]

StudyCategories == {Undefined, <<"m">>, <<"k">>, <<"7">>}

RECURSIVE StudyPoolsOf(_)
StudyPoolsOf(n) ==
    IF n = 0 THEN {<<>>}
    ELSE {Append(ds, Deck(n, cat, StudyCards(n, h))) :
              ds \in StudyPoolsOf(n - 1), cat \in StudyCategories, h \in Histories}

StudyPools == UNION {StudyPoolsOf(n) : n \in 0..MaxStudyDecks}

\* Decks of never-reviewed cards under labels no pool deck has.
NewCategories == {<<"n">>, <<"3">>}
UnreviewedDecks ==
    {Deck(MaxStudyDecks + 1, cat, StudyCards(MaxStudyDecks + 1, h)) :
         cat \in NewCategories, h \in {<< <<0, 250>> >>, << <<0, 250>>, <<0, 150>> >>}}

insertAt(s, k, e) == SubSeq(s, 1, k) \o <<e>> \o SubSeq(s, k + 1, Len(s))

WeaknessInit ==
    /\ now = 0
    /\ pool \in StudyPools
    /\ ilConfig = NoIlConfig
    /\ dpConfig = NoDpConfig
    /\ composed = "none"
    /\ derived = <<>>
    /\ distribution = NoDistribution
    /\ ReviewIdle
    /\ QueueIdle
    /\ FeedbackIdle
    /\ AnalysisIdle
    /\ RestIdle

\* The argument decks after the call: decks and cards are only read.
decksAfterAnalysis(decks) == decks

AnalyzeWeaknessPatterns ==
    /\ ~analysis.called
    /\ analysis' = analyzeWeaknessPatterns(pool)
    /\ pool' = decksAfterAnalysis(pool)
    /\ UNCHANGED <<now, reviewVars, queueVars, feedbackVars, ilConfig, dpConfig, composed,
                   derived, distribution, extraDeck, analysisWith, restVars>>

\* The same decks analysed once more with a never-reviewed deck among them.
AnalyzeWithUnreviewedDeck ==
    /\ analysis.called
    /\ ~analysisWith.called
    /\ \E extra \in UnreviewedDecks, k \in 0..Len(pool) :
          /\ extraDeck' = extra
          /\ analysisWith' = analyzeWeaknessPatterns(insertAt(pool, k, extra))
    /\ UNCHANGED <<now, reviewVars, queueVars, feedbackVars, composeVars, analysis, restVars>>

WeaknessNext == AnalyzeWeaknessPatterns \/ AnalyzeWithUnreviewedDeck

SpecWeakness == WeaknessInit /\ [][WeaknessNext]_vars

\* Trend: up to MaxTrendDecks decks, each under a label of its own, each
\* never reviewed, strong (4/5) or weak (1/5).
MaxTrendDecks == 5

TrendHistories == {<< <<0, 250>> >>, << <<5, 250>> >>, << <<5, 150>> >>}

RECURSIVE TrendPoolsOf(_)
TrendPoolsOf(n) ==
    IF n = 0 THEN {<<>>}
    ELSE {Append(ds, Deck(n, <<NameChars[n]>>, StudyCards(n, h))) :
              ds \in TrendPoolsOf(n - 1), h \in TrendHistories}

TrendPools == UNION {TrendPoolsOf(n) : n \in 0..MaxTrendDecks}

TrendInit ==
    /\ now = 0
    /\ pool \in TrendPools
    /\ ilConfig = NoIlConfig
    /\ dpConfig = NoDpConfig
    /\ composed = "none"
    /\ derived = <<>>
    /\ distribution = NoDistribution
    /\ ReviewIdle
    /\ QueueIdle
    /\ FeedbackIdle
    /\ AnalysisIdle
    /\ RestIdle

TrendNext == AnalyzeWeaknessPatterns

SpecTrend == TrendInit /\ [][TrendNext]_vars

----------------------------------------------------------------------------
(* calculateMetacognitionScore (lib/evidence-learning.ts)                  *)
(*                                                                         *)
(* An answer is a number, a string or a boolean, or is absent; the model   *)
(* tags each value with its typeof.  Question ids are the integers 1..n.   *)

MaxQuestions == 2
MaxRatings == 8

NoAnswer == [kind |-> "undefined", num |-> 0, str |-> <<>>, bool |-> FALSE]
NumberAnswer(n) == [kind |-> "number", num |-> n, str |-> <<>>, bool |-> FALSE]
StringAnswer(str) == [kind |-> "string", num |-> 0, str |-> str, bool |-> FALSE]
BooleanAnswer(b) == [kind |-> "boolean", num |-> 0, str |-> <<>>, bool |-> b]

\* A question without options has options <<>>: q.options || [] reads both alike.
Question(id, type, scale, options) ==
    [id |-> id, type |-> type, scale |-> scale, options |-> options]

\* answer === undefined || answer === ''
isUnanswered(answer) ==
    answer.kind = "undefined" \/ (answer.kind = "string" /\ answer.str = <<>>)

DefaultScale == 5

\* options.indexOf(answer): the first position (from 0) holding the answer, else -1
indexOf(options, answer) ==
    IF answer.kind = "string" /\ \E k \in DOMAIN options : options[k] = answer.str
    THEN (CHOOSE k \in DOMAIN options :
              /\ options[k] = answer.str
              /\ \A j \in 1..(k - 1) : options[j] # answer.str) - 1
    ELSE -1

\* What one pass of the switch adds to maxScore and to totalScore.
maxScoreOf(q, answer) ==
    CASE q.type = "rating" -> IF Truthy(q.scale) THEN q.scale ELSE DefaultScale
      [] q.type = "yesno" -> 1
      [] q.type = "selection" -> Len(q.options)
      [] q.type = "text" -> 1

totalScoreOf(q, answer) ==
    CASE q.type = "rating" -> IF answer.kind = "number" THEN answer.num ELSE 0
      [] q.type = "yesno" -> IF answer.kind = "boolean" /\ answer.bool THEN 1 ELSE 0
      [] q.type = "selection" ->
            IF indexOf(q.options, answer) >= 0
            THEN Len(q.options) - indexOf(q.options, answer) ELSE 0
      [] q.type = "text" -> IF answer.kind = "string" /\ Len(answer.str) > 0 THEN 1 ELSE 0

answerTo(as, q) == IF q.id \in DOMAIN as THEN as[q.id] ELSE NoAnswer

RECURSIVE maxScore(_, _)
maxScore(as, qs) ==
    IF qs = <<>> THEN 0
    ELSE (IF isUnanswered(answerTo(as, Head(qs))) THEN 0
          ELSE maxScoreOf(Head(qs), answerTo(as, Head(qs)))) + maxScore(as, Tail(qs))

RECURSIVE totalScore(_, _)
totalScore(as, qs) ==
    IF qs = <<>> THEN 0
    ELSE (IF isUnanswered(answerTo(as, Head(qs))) THEN 0
          ELSE totalScoreOf(Head(qs), answerTo(as, Head(qs)))) + totalScore(as, Tail(qs))

\* The quotients total / max whose double, multiplied by 100, falls just on
\* the other side of the half its exact value lies on (23 / 40 * 100 is
\* 57.49999999999999): all such pairs with 1 <= max <= 64, |total| <= 200.
HalfLost ==
    {<<-191, 40>>, <<-181, 40>>, <<-171, 40>>, <<-161, 40>>, <<-93, 40>>, <<-83, 40>>,
     <<-49, 40>>, <<-11, 40>>, <<23, 40>>, <<41, 40>>, <<51, 40>>, <<87, 40>>,
     <<97, 40>>, <<169, 40>>, <<179, 40>>, <<189, 40>>, <<199, 40>>}

\* Math.round((totalScore / maxScore) * 100) in double arithmetic
roundPercent(total, max) ==
    IF <<total, max>> \in HalfLost THEN MathRound(100 * total, max) - 1
    ELSE MathRound(100 * total, max)

\* maxScore > 0 ? Math.round((totalScore / maxScore) * 100) : 0
scoreOf(total, max) == IF max > 0 THEN roundPercent(total, max) ELSE 0

calculateMetacognitionScore(as, qs) ==
    IF Len(qs) = 0 THEN 0 ELSE scoreOf(totalScore(as, qs), maxScore(as, qs))

\* The questions of a checklist and the answers a caller can give to each.
OptionList == << <<"x">>, <<"y">>, <<"z">> >>
QuestionKinds(id) ==
    {Question(id, "rating", Omitted, <<>>), Question(id, "rating", 3, <<>>),
     Question(id, "yesno", Omitted, <<>>), Question(id, "selection", Omitted, OptionList),
     Question(id, "text", Omitted, <<>>)}
AnswerValues ==
    {NoAnswer, StringAnswer(<<>>), NumberAnswer(-1), NumberAnswer(0), NumberAnswer(3),
     NumberAnswer(5), NumberAnswer(6), StringAnswer(<<"x">>), StringAnswer(<<"z">>),
     StringAnswer(<<"w">>), BooleanAnswer(TRUE), BooleanAnswer(FALSE)}

QuestionLists(n) == {qs \in [1..n -> UNION {QuestionKinds(i) : i \in 1..n}] :
                         \A i \in 1..n : qs[i].id = i}

ScoreInitWith(Lists, Values) ==
    /\ now = 0
    /\ \E n \in 0..Lists : questions \in QuestionLists(n) /\ answers \in [1..n -> Values]
    /\ score = 0
    /\ scored = FALSE
    /\ HistoryIdle
    /\ PdfIdle
    /\ ContextIdle
    /\ ReviewIdle
    /\ QueueIdle
    /\ FeedbackIdle
    /\ ComposeIdle
    /\ AnalysisIdle

CalculateMetacognitionScore ==
    /\ ~scored
    /\ score' = calculateMetacognitionScore(answers, questions)
    /\ scored' = TRUE
    /\ UNCHANGED <<now, reviewVars, queueVars, feedbackVars, composeVars, analysisVars,
                   questions, answers, historyVars, pdfVars, contextVars>>

ScoreNext == CalculateMetacognitionScore

SpecScore == ScoreInitWith(MaxQuestions, AnswerValues) /\ [][ScoreNext]_vars

\* A longer checklist: up to MaxRatings rating questions of the default
\* scale, each answered 2 or 3.
RatingsInit ==
    /\ now = 0
    /\ \E n \in 0..MaxRatings :
          /\ questions = [i \in 1..n |-> Question(i, "rating", Omitted, <<>>)]
          /\ answers \in [1..n -> {NumberAnswer(2), NumberAnswer(3)}]
    /\ score = 0
    /\ scored = FALSE
    /\ HistoryIdle
    /\ PdfIdle
    /\ ContextIdle
    /\ ReviewIdle
    /\ QueueIdle
    /\ FeedbackIdle
    /\ ComposeIdle
    /\ AnalysisIdle

SpecRatings == RatingsInit /\ [][ScoreNext]_vars

----------------------------------------------------------------------------
(* One caller using the whole core: a card, a card array and a pool of     *)
(* decks, each operation called at most once, in any order.                *)

FrameCards ==
    {NewCard(1, 250, 0),
     [NewCard(1, 137, 0) EXCEPT !.interval = 6, !.repetitions = 2, !.tags = << <<"a">> >>]}

FrameCardLists ==
    {<<QueueCard(1, 2, "easy", 250), QueueCard(2, 1, "medium", 250), QueueCard(3, 1, "hard", 130)>>,
     <<QueueCard(1, 1, "hard", 130), QueueCard(2, 2, "easy", 250)>>}

FramePools ==
    {<<Deck(1, <<"m">>, <<[NewCard(11, 150, 0) EXCEPT !.repetitions = 5],
                          [NewCard(12, 250, 0) EXCEPT !.repetitions = 3]>>),
       Deck(2, Undefined, <<[NewCard(21, 200, 0) EXCEPT !.repetitions = 5]>>)>>,
     <<Deck(1, Undefined, <<NewCard(11, 250, 0), NewCard(12, 150, 0)>>)>>}

FrameInit ==
    /\ now = 0
    /\ card \in FrameCards
    /\ input = card
    /\ quality = NoQuality
    /\ outcome = "none"
    /\ cards \in FrameCardLists
    /\ queueOp = "none"
    /\ queueIn = <<>>
    /\ queueOut = <<>>
    /\ queueAt = NoDate
    /\ queuePrevAt = NoDate
    /\ pool \in FramePools
    /\ ilConfig = NoIlConfig
    /\ dpConfig = NoDpConfig
    /\ composed = "none"
    /\ derived = <<>>
    /\ distribution = NoDistribution
    /\ FeedbackIdle
    /\ AnalysisIdle
    /\ RestIdle

FrameNext ==
    \/ outcome = "none" /\ \E q \in Qualities : Review(q)
    \/ queueOp = "none" /\ GetDueCards
    \/ queueOp = "none" /\ SortCardsForStudy
    \/ CreateInterleavedDeck
    \/ CreateDeliberatePracticeDeck(TruncateConfigs)
    \/ AnalyzeWeaknessPatterns

SpecFrame == FrameInit /\ [][FrameNext]_vars

----------------------------------------------------------------------------
(* Studying a derived deck: the caller composes a deck from the pool, then *)
(* reviews a card and stores the returned Flashcard in the card's source   *)
(* deck.  The derived deck's array holds the very objects of the pool      *)
(* (push(card), push(group[i]), push(...group) copy references), so after  *)
(* the call it holds the argument object as the call left it.              *)

ReviewPoolCard(d, j, q) ==
    LET reviewed == pool[d].cards[j]
        returned == calculateNextReview(reviewed, q, now)
    IN  /\ composed \in {"interleaved", "deliberate"}
        /\ outcome = "none"
        /\ WithinBounds(returned)
        /\ input' = cardAfterReview(reviewed, q)
        /\ quality' = q
        /\ card' = returned
        /\ outcome' = "returned"
        /\ pool' = [pool EXCEPT ![d].cards[j] = returned]
        /\ derived' = [k \in DOMAIN derived |->
                          IF derived[k].id = reviewed.id
                          THEN cardAfterReview(derived[k], q) ELSE derived[k]]
        /\ UNCHANGED <<now, ilConfig, dpConfig, composed, distribution, queueVars,
                       feedbackVars, analysisVars, restVars>>

StudyNext ==
    \/ CreateInterleavedDeck
    \/ CreateDeliberatePracticeDeck(TruncateConfigs)
    \/ \E d \in DOMAIN pool : \E j \in DOMAIN pool[d].cards : \E q \in Qualities :
           ReviewPoolCard(d, j, q)

SpecStudy == ComposeInit(FramePools) /\ [][StudyNext]_vars

----------------------------------------------------------------------------
(* The life of a new card: created with repetitions 0 and interval 1, then *)
(* reviewed up to MaxReviews times with any qualities.                     *)

MaxReviews == 5

CreatedCards == {NewCard(1, e, 0) : e \in InitEases}

HistoryInit ==
    /\ now = 0
    /\ card \in CreatedCards
    /\ input = card
    /\ quality = NoQuality
    /\ outcome = "none"
    /\ history = <<>>
    /\ QueueIdle
    /\ FeedbackIdle
    /\ ComposeIdle
    /\ AnalysisIdle
    /\ ScoreIdle
    /\ PdfIdle
    /\ ContextIdle

\* card = calculateNextReview(card, q), the quality noted in the history
ReviewAgain(q) ==
    /\ Len(history) < MaxReviews
    /\ input' = cardAfterReview(card, q)
    /\ quality' = q
    /\ card' = calculateNextReview(card, q, now)
    /\ outcome' = "returned"
    /\ history' = Append(history, q)
    /\ UNCHANGED <<now, queueVars, feedbackVars, composeVars, analysisVars, scoreVars,
                   pdfVars, contextVars>>

HistoryNext == \E q \in Qualities : ReviewAgain(q)

SpecHistory == HistoryInit /\ [][HistoryNext]_vars

----------------------------------------------------------------------------
(* The PDF card generator: generateCardsFromPDF and processLargePDF.  A    *)
(* run is followed through the events it hands to onProgress.  The text of *)
(* the document matters only through its length, which fixes the number of *)
(* 2000-character chunks; the answer of the AI to a chunk is either a      *)
(* failure (caught, the loop continues) or a number of usable cards.       *)

MaxPages == 3
MaxCardCount == 2
MaxItems == 2

ExtractPages == 50
chunkSize == 2000
DefaultPageChunkSize == 10

Event(stage, progress) == [stage |-> stage, progress |-> progress]

\* if (onProgress) onProgress(e)
deliver(run, evs, e) == IF run.callback THEN Append(evs, e) ELSE evs

\* const pagesToProcess = Math.min(totalPages, maxPages) for
\* generateCardsFromPDF; processLargePDF reads every page
pagesToProcess(run) ==
    IF run.fn = "generateCardsFromPDF" THEN Min(run.totalPages, ExtractPages)
    ELSE run.totalPages

\* for (let i = 0; i < text.length; i += chunkSize) chunks.push(...)
chunkCount(textLength) == (textLength + chunkSize - 1) \div chunkSize

pageChunkSizeOf(run) ==
    IF run.pageChunkSize = Omitted THEN DefaultPageChunkSize ELSE run.pageChunkSize

\* progress of the 'extracting' event after n pages
extractingProgress(run, n) ==
    IF run.fn = "generateCardsFromPDF" THEN MathRound(n * 40, pagesToProcess(run))
    ELSE MathRound(n * 35, run.totalPages)

analyzingProgress(run) == IF run.fn = "generateCardsFromPDF" THEN 42 ELSE 38

generatingProgress(run) == IF run.fn = "generateCardsFromPDF" THEN 45 ELSE 42

\* progress of the 'generating' event of chunk i: 40 + Math.round((i / chunks.length) * 50)
chunkProgress(i, chunks) == 40 + MathRound(i * 50, chunks)

\* Every page adds its text and "\n\n" to the text, so a document of p
\* pages read gives a text of at least 2p characters.
ExtraLengths == {0, 2000, 4000}

PdfRuns ==
    {r \in [fn : {"generateCardsFromPDF", "processLargePDF"},
            callback : BOOLEAN,
            totalPages : 0..MaxPages,
            pageChunkSize : {Omitted, 1, 2},
            textLength : {2 * p + x : p \in 0..MaxPages, x \in ExtraLengths} \cup {0},
            cardCount : 0..MaxCardCount] :
        /\ r.fn = "generateCardsFromPDF" => r.pageChunkSize = Omitted
        /\ IF r.totalPages = 0 THEN r.textLength = 0
           ELSE \E x \in ExtraLengths : r.textLength = 2 * r.totalPages + x}

PdfInit ==
    /\ now = 0
    /\ pdfRun \in PdfRuns
    /\ pdfPc = "called"
    /\ processedPages = 0
    /\ chunkIndex = 0
    /\ cardsGenerated = 0
    /\ events = <<>>
    /\ ContextIdle
    /\ ScoreIdle
    /\ HistoryIdle
    /\ ReviewIdle
    /\ QueueIdle
    /\ FeedbackIdle
    /\ ComposeIdle
    /\ AnalysisIdle

PdfUnchanged ==
    UNCHANGED <<now, reviewVars, queueVars, feedbackVars, composeVars, analysisVars,
                scoreVars, historyVars, contextVars, pdfRun>>

\* ensurePdfJs, file.arrayBuffer and getDocument succeed
OpenDocument ==
    /\ pdfPc = "called"
    /\ pdfPc' = "extracting"
    /\ UNCHANGED <<processedPages, chunkIndex, cardsGenerated, events>>
    /\ PdfUnchanged

\* PDF.js cannot be loaded, or the document or one of its pages cannot be
\* read: the run rejects and delivers nothing more
ExtractionThrows ==
    /\ \/ pdfPc = "called"
       \/ pdfPc = "extracting" /\ processedPages < pagesToProcess(pdfRun)
    /\ pdfPc' = "threw"
    /\ UNCHANGED <<processedPages, chunkIndex, cardsGenerated, events>>
    /\ PdfUnchanged

\* one pass of the page loop of extractTextFromPDF
ExtractPage ==
    /\ pdfPc = "extracting"
    /\ pdfRun.fn = "generateCardsFromPDF"
    /\ processedPages < pagesToProcess(pdfRun)
    /\ processedPages' = processedPages + 1
    /\ events' = deliver(pdfRun, events,
                         Event("extracting", extractingProgress(pdfRun, processedPages + 1)))
    /\ UNCHANGED <<pdfPc, chunkIndex, cardsGenerated>>
    /\ PdfUnchanged

\* one pass of the outer loop of processLargePDF: pageChunkSize pages read,
\* then one event
ExtractPageChunk ==
    /\ pdfPc = "extracting"
    /\ pdfRun.fn = "processLargePDF"
    /\ processedPages < pdfRun.totalPages
    /\ LET read == Min(processedPages + pageChunkSizeOf(pdfRun), pdfRun.totalPages)
       IN  /\ processedPages' = read
           /\ events' = deliver(pdfRun, events,
                                Event("extracting", extractingProgress(pdfRun, read)))
    /\ UNCHANGED <<pdfPc, chunkIndex, cardsGenerated>>
    /\ PdfUnchanged

\* the 'analyzing' event and analyzePdfStructure
AnalyzeStructure ==
    /\ pdfPc = "extracting"
    /\ processedPages = pagesToProcess(pdfRun)
    /\ pdfPc' = "analyzing"
    /\ events' = deliver(pdfRun, events, Event("analyzing", analyzingProgress(pdfRun)))
    /\ UNCHANGED <<processedPages, chunkIndex, cardsGenerated>>
    /\ PdfUnchanged

\* the 'generating' event before the call of generateCardsFromText
StartGenerating ==
    /\ pdfPc = "analyzing"
    /\ pdfPc' = "generating"
    /\ events' = deliver(pdfRun, events, Event("generating", generatingProgress(pdfRun)))
    /\ chunkIndex' = 0
    /\ cardsGenerated' = 0
    /\ UNCHANGED processedPages
    /\ PdfUnchanged

\* one pass of the chunk loop of generateCardsFromText; items is the number
\* of usable cards in the answer, -1 when the request or the parse throws
GenerateChunk(items) ==
    /\ pdfPc = "generating"
    /\ chunkIndex < chunkCount(pdfRun.textLength)
    /\ cardsGenerated < pdfRun.cardCount
    /\ events' = deliver(pdfRun, events,
                         Event("generating",
                               chunkProgress(chunkIndex, chunkCount(pdfRun.textLength))))
    /\ cardsGenerated' = IF items = -1 THEN cardsGenerated
                   ELSE Min(pdfRun.cardCount, cardsGenerated + items)
    /\ chunkIndex' = chunkIndex + 1
    /\ UNCHANGED <<pdfPc, processedPages>>
    /\ PdfUnchanged

\* generateCardsFromText returns; generateCardsFromPDF reports 'saving',
\* processLargePDF does not; the deck is stored (a storage failure is caught)
SaveDeck ==
    /\ pdfPc = "generating"
    /\ ~(chunkIndex < chunkCount(pdfRun.textLength) /\ cardsGenerated < pdfRun.cardCount)
    /\ pdfPc' = "saving"
    /\ events' = IF pdfRun.fn = "generateCardsFromPDF"
                 THEN deliver(pdfRun, events, Event("saving", 92))
                 ELSE events
    /\ UNCHANGED <<processedPages, chunkIndex, cardsGenerated>>
    /\ PdfUnchanged

\* the 'complete' event and the return
Complete ==
    /\ pdfPc = "saving"
    /\ pdfPc' = "returned"
    /\ events' = deliver(pdfRun, events, Event("complete", 100))
    /\ UNCHANGED <<processedPages, chunkIndex, cardsGenerated>>
    /\ PdfUnchanged

PdfNext ==
    \/ OpenDocument
    \/ ExtractionThrows
    \/ ExtractPage
    \/ ExtractPageChunk
    \/ AnalyzeStructure
    \/ StartGenerating
    \/ \E items \in -1..MaxItems : GenerateChunk(items)
    \/ SaveDeck
    \/ Complete

SpecPdf == PdfInit /\ [][PdfNext]_vars

----------------------------------------------------------------------------
(* The chat client: trimContext and its use in fetchAIResponse.  A message *)
(* is its role and its content; the content is a number that tells the     *)
(* messages of one list apart.                                             *)

MaxChatLength == 4
MaxLimit == 3

DefaultMaxMessages == 20
RequestMaxMessages == 30

Roles == {"system", "user", "assistant"}

ChatMessage(role, content) == [role |-> role, content |-> content]

isSystem(m) == m.role = "system"
isOther(m) == m.role # "system"

\* Array.prototype.slice(start) with one argument: a negative start counts
\* from the end, and both ends are clamped to the array
sliceFrom(s, start) ==
    LET k == IF start < 0 THEN Max(Len(s) + start, 0) ELSE Min(start, Len(s))
    IN  SubSeq(s, k + 1, Len(s))

limitOf(max) == IF max = Omitted THEN DefaultMaxMessages ELSE max

trimContext(ms, max) ==
    IF Len(ms) <= limitOf(max) THEN ms
    ELSE LET systemMsgs == SelectSeq(ms, isSystem)
             otherMsgs == SelectSeq(ms, isOther)
             allowedCount == limitOf(max) - Len(systemMsgs)
             trimmedOther == sliceFrom(otherMsgs, -allowedCount)
         IN  systemMsgs \o trimmedOther

ChatLists ==
    UNION {{[i \in 1..n |-> ChatMessage(rs[i], i)] : rs \in [1..n -> Roles]} :
           n \in 0..MaxChatLength}

ContextInit ==
    /\ now = 0
    /\ messages \in ChatLists
    /\ maxMessages = Omitted
    /\ trimmed = <<>>
    /\ trimCalled = "none"
    /\ PdfIdle
    /\ ScoreIdle
    /\ HistoryIdle
    /\ ReviewIdle
    /\ QueueIdle
    /\ FeedbackIdle
    /\ ComposeIdle
    /\ AnalysisIdle

ContextUnchanged ==
    UNCHANGED <<now, reviewVars, queueVars, feedbackVars, composeVars, analysisVars,
                scoreVars, historyVars, pdfVars>>

\* trimmed = trimContext(messages, max), max left out for the default
TrimContext(max) ==
    /\ trimCalled = "none"
    /\ maxMessages' = max
    /\ trimmed' = trimContext(messages, max)
    /\ trimCalled' = "trimContext"
    /\ UNCHANGED messages
    /\ ContextUnchanged

\* fetchAIResponse(messages, systemPrompt) with an API key stored: the
\* system prompt, when given, goes in front, and the list is trimmed to
\* RequestMaxMessages for the request body.  Content 0 is the prompt.
FetchAIResponse(withPrompt) ==
    /\ trimCalled = "none"
    /\ LET fullMessages == IF withPrompt THEN <<ChatMessage("system", 0)>> \o messages
                           ELSE messages
       IN  /\ messages' = fullMessages
           /\ trimmed' = trimContext(fullMessages, RequestMaxMessages)
    /\ maxMessages' = RequestMaxMessages
    /\ trimCalled' = "fetchAIResponse"
    /\ ContextUnchanged

\* fetchAIResponse without an API key: throws before anything is built
FetchWithoutKey ==
    /\ trimCalled = "none"
    /\ trimCalled' = "threw"
    /\ UNCHANGED <<messages, maxMessages, trimmed>>
    /\ ContextUnchanged

ContextNext ==
    \/ \E max \in (1..MaxLimit) \cup {Omitted} : TrimContext(max)
    \/ \E withPrompt \in BOOLEAN : FetchAIResponse(withPrompt)
    \/ FetchWithoutKey

SpecContext == ContextInit /\ [][ContextNext]_vars

----------------------------------------------------------------------------
(* Properties of calculateNextReview *)

Returned == outcome = "returned"

\* C1: along any sequence of reviews with qualities 0..5 that starts from a
\* card whose ease factor is at least 1.3, the ease factor of every card state
\* is at least 1.3 (130 hundredths).
EaseNeverBelowMinimum == card.easeFactor >= 130

\* A quality-0 review of a card already at 1.3: the floor is what keeps it there.
EaseFloorWitness ==
    /\ Returned
    /\ quality = 0
    /\ input.easeFactor = 130
    /\ card.easeFactor = 130

\* C2: a review with quality 0, 1 or 2 returns repetitions = 0 and interval = 1
\* whatever the card's state was.
FailureResetsSchedule ==
    (Returned /\ quality \in {0, 1, 2}) => (card.repetitions = 0 /\ card.interval = 1)

FailureResetWitness ==
    /\ Returned
    /\ quality \in {0, 1, 2}
    /\ input.repetitions >= 2
    /\ input.interval > 1
    /\ card.repetitions = 0
    /\ card.interval = 1

\* n is x rounded to the nearest integer, x = num / 100: n - 1/2 <= x < n + 1/2.
IsRounded(n, num) == 100 * n - 50 <= num /\ num < 100 * n + 50

\* C3: a review with quality 3, 4 or 5 returns repetitions + 1, and interval 1
\* when repetitions was 0, 6 when it was 1, and otherwise the previous interval
\* times the previous ease factor (the one before this review's adjustment),
\* rounded; ease 2.5, interval 6, repetitions 2, quality 4 gives 15, 3 and 2.5.
SuccessSchedule ==
    (Returned /\ quality \in {3, 4, 5}) =>
        /\ card.repetitions = input.repetitions + 1
        /\ input.repetitions = 0 => card.interval = 1
        /\ input.repetitions = 1 => card.interval = 6
        /\ input.repetitions >= 2 =>
               IsRounded(card.interval, input.interval * input.easeFactor)
        /\ (input.easeFactor = 250 /\ input.interval = 6 /\ input.repetitions = 2
            /\ quality = 4) =>
               (card.interval = 15 /\ card.repetitions = 3 /\ card.easeFactor = 250)

\* A third success whose quality changes the ease factor, so that the old and
\* the new ease factor give different intervals.
SuccessScheduleWitness ==
    /\ Returned
    /\ quality = 5
    /\ input.repetitions = 2
    /\ input.interval = 6
    /\ input.easeFactor = 250
    /\ card.interval = 15
    /\ card.easeFactor = 260

\* d(q) of the claim, in hundredths.
EaseDelta ==
    [q \in 0..5 |-> CASE q = 5 -> 10 [] q = 4 -> 0 [] q = 3 -> -14
                      [] q = 2 -> -32 [] q = 1 -> -54 [] q = 0 -> -80]

\* C4: for every quality 0..5, failure or success, the new ease factor is
\* max(1.3, ease + d(q)) with d = +0.10, 0, -0.14, -0.32, -0.54, -0.80 for
\* q = 5, 4, 3, 2, 1, 0.
EaseUpdate ==
    (Returned /\ quality \in 0..5) =>
        card.easeFactor =
            IF input.easeFactor + EaseDelta[quality] >= 130
            THEN input.easeFactor + EaseDelta[quality]
            ELSE 130

\* A failed review that lowers the ease factor without reaching the floor.
EaseUpdateWitness ==
    /\ Returned
    /\ quality = 2
    /\ input.easeFactor = 250
    /\ card.easeFactor = 218

\* C5: from a card with interval >= 1 and repetitions >= 0, every card state
\* reached by reviews with qualities 0..5 has an integer interval >= 1 and an
\* integer repetitions >= 0.
ScheduleFieldsInRange ==
    /\ card.interval \in Nat
    /\ card.interval >= 1
    /\ card.repetitions \in Nat

\* The smallest product the rounding branch can see (1 x 1.3), and a reset.
ScheduleFieldsWitness ==
    /\ Returned
    /\ \/ /\ quality >= 3
          /\ input.repetitions >= 2
          /\ input.interval = 1
          /\ input.easeFactor = 130
          /\ card.interval = 1
       \/ /\ quality < 3
          /\ input.interval > 1
          /\ card.interval = 1

\* C6: a call with a quality outside 0..5 fails with InvalidArgument and
\* returns no updated state.
OutOfRangeQualityRejected ==
    (quality # NoQuality /\ quality \notin 0..5) =>
        (outcome = "InvalidArgument" /\ card = input)

\* C7: the returned difficulty is easy for quality >= 4, medium for 3 and hard
\* below 3, whatever the previous label and the ease factor.
DifficultyFollowsQuality ==
    (Returned /\ quality \in 0..5) =>
        card.difficulty =
            CASE quality >= 4 -> "easy" [] quality = 3 -> "medium" [] quality < 3 -> "hard"

\* quality 4 relabels a hard card as easy although its ease factor is at the floor.
DifficultyWitness ==
    /\ Returned
    /\ quality = 4
    /\ input.difficulty = "hard"
    /\ card.difficulty = "easy"
    /\ card.easeFactor = 130

----------------------------------------------------------------------------
(* Properties of getDueCards and sortCardsForStudy *)

\* The positions of s whose card is due at time t.
DuePositions(s, t) == {i \in DOMAIN s : s[i].nextReviewDate <= t}

\* The k-th smallest element of a set of positions.
KthOf(P, k) == CHOOSE i \in P : Cardinality({j \in P : j <= i}) = k

\* C8: getDueCards returns exactly the cards due at or before now (a card due
\* exactly at now included), in their original order, and applied again at the
\* same now to its own result it returns that result unchanged.
DueCardsExactAndIdempotent ==
    /\ queueOp \in {"due", "dueAgain"} =>
          LET P == DuePositions(queueIn, queueAt)
          IN  /\ Len(queueOut) = Cardinality(P)
              /\ \A k \in 1..Len(queueOut) : queueOut[k] = queueIn[KthOf(P, k)]
    /\ (queueOp = "dueAgain" /\ queueAt = queuePrevAt) => queueOut = queueIn

\* Three cards, the second one not yet due and the others due exactly now: the
\* first call keeps cards 1 and 3, the second call at the same time keeps both.
DueCardsWitness ==
    /\ queueOp = "dueAgain"
    /\ queueAt = queuePrevAt
    /\ Len(cards) = 3
    /\ cards[1].nextReviewDate = queueAt
    /\ cards[2].nextReviewDate > queueAt
    /\ cards[3].nextReviewDate = queueAt
    /\ queueIn = <<cards[1], cards[3]>>
    /\ queueOut = queueIn

\* hard = 3, medium = 2, easy = 1
Severity(c) == CASE c.difficulty = "hard" -> 3 [] c.difficulty = "medium" -> 2
                 [] c.difficulty = "easy" -> 1

SameKeys(a, b) ==
    /\ a.nextReviewDate = b.nextReviewDate
    /\ a.difficulty = b.difficulty
    /\ a.easeFactor = b.easeFactor

\* a goes strictly before b: earlier due date, then greater severity, then
\* smaller ease factor.
StrictlyBefore(a, b) ==
    \/ a.nextReviewDate < b.nextReviewDate
    \/ /\ a.nextReviewDate = b.nextReviewDate
       /\ \/ Severity(a) > Severity(b)
          \/ Severity(a) = Severity(b) /\ a.easeFactor < b.easeFactor

\* The position of card c in s (ids are unique within an array of the model).
PositionIn(s, c) == CHOOSE i \in DOMAIN s : s[i].id = c.id

\* C9: sortCardsForStudy returns a permutation of its input ordered by due date
\* ascending, then hard before medium before easy, then ease factor ascending,
\* and cards equal on all three keys keep their input order.
SortedForStudy ==
    queueOp = "sorted" =>
        /\ Len(queueOut) = Len(queueIn)
        /\ \A i \in DOMAIN queueIn : \E j \in DOMAIN queueOut : queueOut[j] = queueIn[i]
        /\ \A i, j \in DOMAIN queueOut :
              i < j =>
                 /\ ~StrictlyBefore(queueOut[j], queueOut[i])
                 /\ SameKeys(queueOut[i], queueOut[j]) =>
                        PositionIn(queueIn, queueOut[i]) < PositionIn(queueIn, queueOut[j])

\* Two cards with equal keys behind which stands a card that differs from them
\* only in being harder: it moves to the front, the equal pair keeps its order.
SortedWitness ==
    /\ queueOp = "sorted"
    /\ Len(queueIn) = 3
    /\ SameKeys(queueIn[1], queueIn[2])
    /\ queueIn[3].nextReviewDate = queueIn[1].nextReviewDate
    /\ queueIn[3].difficulty = "hard"
    /\ queueIn[1].difficulty = "easy"
    /\ queueIn[3].easeFactor > queueIn[1].easeFactor
    /\ queueOut = <<queueIn[3], queueIn[1], queueIn[2]>>

----------------------------------------------------------------------------
(* Properties of getAdaptiveFeedback *)

\* C10: with responseTimeMs 10000 and streak 0 when omitted, the result is
\* (excellent, easy) for correct, under 8000 ms and streak >= 2; (good, easy)
\* for correct and under 8000 ms otherwise; (good, medium) for correct and
\* 8000 ms or more; (struggling, hard) for incorrect with streak 0;
\* (needs_review, medium) for incorrect with another streak.
FeedbackTable ==
    fbResult # NoFeedback =>
        LET t == IF fbArgs.responseTimeMs = Omitted THEN 10000 ELSE fbArgs.responseTimeMs
            k == IF fbArgs.streak = Omitted THEN 0 ELSE fbArgs.streak
            expected ==
                CASE fbArgs.isCorrect /\ t < 8000 /\ k >= 2 -> <<"excellent", "easy">>
                  [] fbArgs.isCorrect /\ t < 8000 /\ k < 2 -> <<"good", "easy">>
                  [] fbArgs.isCorrect /\ t >= 8000 -> <<"good", "medium">>
                  [] ~fbArgs.isCorrect /\ k = 0 -> <<"struggling", "hard">>
                  [] ~fbArgs.isCorrect /\ k # 0 -> <<"needs_review", "medium">>
        IN  /\ <<fbResult.level, fbResult.adjustedDifficulty>> = expected
            /\ (~fbArgs.isCorrect /\ fbArgs.responseTimeMs = 3000 /\ fbArgs.streak = 0) =>
                   (fbResult.level = "struggling" /\ fbResult.adjustedDifficulty = "hard")

\* A fast correct answer on a streak of exactly 2.
FeedbackWitness ==
    /\ fbArgs.isCorrect
    /\ fbArgs.responseTimeMs = 7999
    /\ fbArgs.streak = 2
    /\ fbResult = [level |-> "excellent", adjustedDifficulty |-> "easy"]

----------------------------------------------------------------------------
(* Properties of createInterleavedDeck and analyzeInterleavedDistribution *)

Interleaved == composed \in {"interleaved", "distributed"}

\* Card ids of a pool are 10 * (deck id) + (position in the deck).
SourceDeck(c) == c.id \div 10
PositionInDeck(c) == c.id % 10

\* How many of the first k cards of s come from deck d.
CountFrom(s, k, d) == Cardinality({j \in 1..k : SourceDeck(s[j]) = d})

\* C11: in round-robin mode two adjacent cards come from the same deck only
\* where every other deck has already contributed all the cards it contributes;
\* decks of sizes 2, 3, 1 give 6 cards, the last one from the 3-card deck.
RoundRobinAlternates ==
    (Interleaved /\ ilConfig.shuffleMode = "round-robin") =>
        /\ \A k \in 1..(Len(derived) - 1) :
              SourceDeck(derived[k]) = SourceDeck(derived[k + 1]) =>
                 \A d \in 1..Len(pool) :
                    d # SourceDeck(derived[k]) =>
                       CountFrom(derived, k, d) = CountFrom(derived, Len(derived), d)
        /\ (/\ Len(pool) = 3
            /\ Len(pool[1].cards) = 2 /\ Len(pool[2].cards) = 3 /\ Len(pool[3].cards) = 1
            /\ ilConfig.deckIds = {} /\ ilConfig.cardsPerDeck = Omitted) =>
               (Len(derived) = 6 /\ SourceDeck(derived[6]) = 2)

\* The 2, 3, 1 pool: the last two cards are both from the 3-card deck.
RoundRobinWitness ==
    /\ Interleaved
    /\ ilConfig.shuffleMode = "round-robin"
    /\ ilConfig.deckIds = {}
    /\ ilConfig.cardsPerDeck = Omitted
    /\ Len(pool) = 3
    /\ Len(pool[1].cards) = 2 /\ Len(pool[2].cards) = 3 /\ Len(pool[3].cards) = 1
    /\ Len(derived) = 6
    /\ SourceDeck(derived[5]) = 2
    /\ SourceDeck(derived[6]) = 2

\* C12: the round-robin output holds exactly the cards of the selected groups,
\* every card at index i before every card at index i + 1, and within one index
\* the groups in pool order (so each group's cards keep their order).
RoundRobinOrder ==
    (Interleaved /\ ilConfig.shuffleMode = "round-robin") =>
        LET groups == selectedGroups(pool, ilConfig)
        IN  /\ Len(derived) = Len(Concat(groups))
            /\ \A g \in DOMAIN groups : \A i \in DOMAIN groups[g] :
                   \E k \in DOMAIN derived : derived[k] = groups[g][i]
            /\ \A k, l \in DOMAIN derived :
                   k < l =>
                      \/ PositionInDeck(derived[k]) < PositionInDeck(derived[l])
                      \/ /\ PositionInDeck(derived[k]) = PositionInDeck(derived[l])
                         /\ SourceDeck(derived[k]) < SourceDeck(derived[l])

\* Decks 1 and 3 of a three-deck pool, capped at 2: 11, 31, 12, 32.
RoundRobinOrderWitness ==
    /\ Interleaved
    /\ ilConfig.shuffleMode = "round-robin"
    /\ ilConfig.deckIds = {1, 3}
    /\ ilConfig.cardsPerDeck = 2
    /\ Len(pool) = 3
    /\ Len(pool[1].cards) = 3 /\ Len(pool[2].cards) = 1 /\ Len(pool[3].cards) = 2
    /\ [k \in DOMAIN derived |-> derived[k].id] = <<11, 31, 12, 32>>

\* The decks the configuration selects: all of them, or the named ones.
IsSelected(d) == ilConfig.deckIds = {} \/ d.id \in ilConfig.deckIds

\* What a selected deck is to contribute: its first min(cap, size) cards when a
\* cap is given, all of its cards without a cap.
StatedShare(d) ==
    IF ilConfig.cardsPerDeck = Omitted THEN Len(d.cards)
    ELSE Min(ilConfig.cardsPerDeck, Len(d.cards))

\* derived holds exactly the first share(d) cards of every selected deck d.
HoldsExactlyShares(share(_)) ==
    /\ \A k \in DOMAIN derived :
          \E d \in DOMAIN pool :
             /\ IsSelected(pool[d])
             /\ \E j \in 1..share(pool[d]) : derived[k] = pool[d].cards[j]
    /\ \A d \in DOMAIN pool :
          IsSelected(pool[d]) =>
             \A j \in 1..share(pool[d]) :
                Cardinality({k \in DOMAIN derived : derived[k] = pool[d].cards[j]}) = 1

\* C13: in every mode the result holds, each exactly once, the first
\* min(cap, size) cards of every selected deck when a cap is given and all its
\* cards when not, and nothing else.
InterleavedHoldsStatedShares == Interleaved => HoldsExactlyShares(StatedShare)

\* The same statement with a cap of 0 read as no cap: what the code does.
PositiveShare(d) ==
    IF Truthy(ilConfig.cardsPerDeck) THEN Min(ilConfig.cardsPerDeck, Len(d.cards))
    ELSE Len(d.cards)

InterleavedHoldsPositiveShares == Interleaved => HoldsExactlyShares(PositiveShare)

\* C16: a shuffle mode other than 'round-robin' and 'random' makes the call
\* fail with InvalidArgument and produce no deck.
UnknownShuffleModeRejected ==
    (composed # "none" /\ ilConfig.shuffleMode \notin {"round-robin", "random"}) =>
        (composed = "InvalidArgument" /\ derived = <<>>)

\* The decks of the pool that have a card in s.
OriginsOf(s) == {d \in DOMAIN pool : CountFrom(s, Len(s), pool[d].id) > 0}

\* C17: the distribution has one entry per originating deck, under the deck's
\* name, counting that deck's cards in the derived deck; the counts add up to
\* the size of the derived deck.
DistributionCountsOrigins ==
    composed = "distributed" =>
        /\ DOMAIN distribution = {pool[d].name : d \in OriginsOf(derived)}
        /\ \A d \in OriginsOf(derived) :
              distribution[pool[d].name] = CountFrom(derived, Len(derived), pool[d].id)

----------------------------------------------------------------------------
(* Properties of createDeliberatePracticeDeck *)

\* All cards of the pool in encounter order: decks in pool order, cards in
\* deck order.
PoolCards == Concat([d \in DOMAIN pool |-> pool[d].cards])

\* The deck of the pool that holds card c.
OwnerOf(c) == pool[CHOOSE d \in DOMAIN pool : \E j \in DOMAIN pool[d].cards : pool[d].cards[j] = c]

\* rank(card): 3 below 2.0, 2 from 2.0 up to but not including 2.5, else 1.
EaseRank(c) ==
    CASE c.easeFactor < 200 -> 3
      [] c.easeFactor >= 200 /\ c.easeFactor < 250 -> 2
      [] c.easeFactor >= 250 -> 1

LevelRank(level) == CASE level = "hard" -> 3 [] level = "medium" -> 2 [] level = "easy" -> 1

Tolerance == IF dpConfig.adaptiveThreshold = Omitted THEN 0 ELSE dpConfig.adaptiveThreshold

\* Condition (b): no target difficulty, or the ranks differ by at most the tolerance.
DifficultyFits(c) ==
    \/ dpConfig.difficultyLevel = "none"
    \/ /\ EaseRank(c) - LevelRank(dpConfig.difficultyLevel) <= Tolerance
       /\ LevelRank(dpConfig.difficultyLevel) - EaseRank(c) <= Tolerance

\* The matching cards of the truncation pools (no focus topics, tolerance 0).
TruncateMatches == SelectSeq(PoolCards, DifficultyFits)

\* C14: the result is the first min(maxCards, m) of the m matching cards in
\* encounter order, and never holds more than maxCards cards, for every
\* maxCards; 12 matches with maxCards = 5 give the first 5.
TruncatedToMaxCards ==
    (composed = "deliberate" /\ dpConfig.maxCards # Omitted) =>
        /\ Len(derived) <= dpConfig.maxCards
        /\ derived = SubSeq(TruncateMatches, 1, Min(dpConfig.maxCards, Len(TruncateMatches)))

\* The same statement for maxCards >= 1 only: what the code does.
TruncatedToPositiveMaxCards ==
    (composed = "deliberate" /\ dpConfig.maxCards # Omitted /\ dpConfig.maxCards # 0) =>
        /\ Len(derived) <= dpConfig.maxCards
        /\ derived = SubSeq(TruncateMatches, 1, Min(dpConfig.maxCards, Len(TruncateMatches)))
        /\ (Len(TruncateMatches) = 12 /\ dpConfig.maxCards = 5) =>
               derived = SubSeq(TruncateMatches, 1, 5)

\* The strings a focus topic is compared with; an absent category is "".
CategoryOf(c) == IF OwnerOf(c).category = Undefined THEN <<>> ELSE OwnerOf(c).category

EqualNoCase(a, b) == toLowerCase(a) = toLowerCase(b)
ContainsNoCase(str, sub) == stringIncludes(toLowerCase(str), toLowerCase(sub))

\* Condition (a) as stated: a topic equals or is contained in a tag or the category.
FocusFitsAnyField(c) ==
    \/ dpConfig.focusAreas = <<>>
    \/ \E a \in DOMAIN dpConfig.focusAreas :
          \/ \E k \in DOMAIN c.tags : ContainsNoCase(c.tags[k], dpConfig.focusAreas[a])
          \/ ContainsNoCase(CategoryOf(c), dpConfig.focusAreas[a])

\* Condition (a) as the code has it: a topic equals a tag, or is contained in
\* the category.
FocusFitsTagOrCategory(c) ==
    \/ dpConfig.focusAreas = <<>>
    \/ \E a \in DOMAIN dpConfig.focusAreas :
          \/ \E k \in DOMAIN c.tags : EqualNoCase(c.tags[k], dpConfig.focusAreas[a])
          \/ ContainsNoCase(CategoryOf(c), dpConfig.focusAreas[a])

InDerived(c) == \E k \in DOMAIN derived : derived[k] = c

\* The cards of the result satisfy keep, and without a card limit every pool
\* card that satisfies keep is in the result.
KeptExactly(keep(_)) ==
    composed = "deliberate" =>
        \A i \in DOMAIN PoolCards :
            /\ InDerived(PoolCards[i]) => keep(PoolCards[i])
            /\ (dpConfig.maxCards = Omitted /\ keep(PoolCards[i])) => InDerived(PoolCards[i])

KeepAsStated(c) == FocusFitsAnyField(c) /\ DifficultyFits(c)
KeepAsCoded(c) == FocusFitsTagOrCategory(c) /\ DifficultyFits(c)

----------------------------------------------------------------------------
(* Properties of analyzeWeaknessPatterns *)

\* The topics a result reports, strong or weak.
ReportedTopics(a) ==
    {a.strongAreas[k] : k \in DOMAIN a.strongAreas}
        \cup {a.overallWeakAreas[k].chapter : k \in DOMAIN a.overallWeakAreas}

\* The label the description gives a deck: its category, else its name.
StatedLabel(d) == IF d.category # Undefined THEN d.category ELSE d.name

Reviewed(d) == deckTotal(d.cards) > 0

\* C18: cards are grouped under the deck's category, else under the deck's
\* name: the reported topics are the categories and, for decks without one,
\* the names of the reviewed decks, so two reviewed decks without a category
\* are reported as two topics under their own names.
GroupedByCategoryOrName ==
    analysis.called =>
        /\ ReportedTopics(analysis) =
               {StatedLabel(pool[i]) : i \in {j \in DOMAIN pool : Reviewed(pool[j])}}
        /\ (/\ Len(pool) = 2
            /\ pool[1].category = Undefined /\ pool[2].category = Undefined
            /\ Reviewed(pool[1]) /\ Reviewed(pool[2])) =>
               Len(analysis.strongAreas) + Len(analysis.overallWeakAreas) = 2

\* The same statement for pools in which every deck has a category.
GroupedByCategory ==
    (analysis.called /\ \A i \in DOMAIN pool : pool[i].category # Undefined) =>
        ReportedTopics(analysis) =
            {pool[i].category : i \in {j \in DOMAIN pool : Reviewed(pool[j])}}

\* The label the analyzer files a deck under.
TopicOf(d) == propertyKey(chapterLabel(d))

RECURSIVE AttemptedIn(_, _)
AttemptedIn(decks, topic) ==
    IF decks = <<>> THEN 0
    ELSE (IF TopicOf(Head(decks)) = topic THEN deckTotal(Head(decks).cards) ELSE 0)
             + AttemptedIn(Tail(decks), topic)

RECURSIVE CorrectIn(_, _)
CorrectIn(decks, topic) ==
    IF decks = <<>> THEN 0
    ELSE (IF TopicOf(Head(decks)) = topic THEN deckCorrect(Head(decks).cards) ELSE 0)
             + CorrectIn(Tail(decks), topic)

Attempted(topic) == AttemptedIn(pool, topic)
Correct(topic) == CorrectIn(pool, topic)
Topics == {TopicOf(pool[i]) : i \in DOMAIN pool}

UnattemptedSkipped ==
    analysis.called =>
        \A topic \in Topics : Attempted(topic) = 0 => topic \notin ReportedTopics(analysis)

\* C19: a topic with zero attempts is in neither list, and a deck of
\* never-reviewed cards under a new label added to the input leaves
\* averageAccuracy, strongAreas, overallWeakAreas and improvementTrend unchanged.
UnreviewedTopicChangesNothing ==
    /\ UnattemptedSkipped
    /\ analysisWith.called =>
          /\ TopicOf(extraDeck) \notin ReportedTopics(analysisWith)
          /\ analysisWith.averageAccuracy = analysis.averageAccuracy
          /\ analysisWith.strongAreas = analysis.strongAreas
          /\ analysisWith.overallWeakAreas = analysis.overallWeakAreas
          /\ analysisWith.improvementTrend = analysis.improvementTrend

\* The same statement without improvementTrend: what the code does.
UnreviewedTopicKeepsLists ==
    /\ UnattemptedSkipped
    /\ analysisWith.called =>
          /\ TopicOf(extraDeck) \notin ReportedTopics(analysisWith)
          /\ analysisWith.averageAccuracy = analysis.averageAccuracy
          /\ analysisWith.strongAreas = analysis.strongAreas
          /\ analysisWith.overallWeakAreas = analysis.overallWeakAreas

StrongCount(topic) ==
    Cardinality({k \in DOMAIN analysis.strongAreas : analysis.strongAreas[k] = topic})
WeakEntries(topic) ==
    {k \in DOMAIN analysis.overallWeakAreas : analysis.overallWeakAreas[k].chapter = topic}

\* C20: for every topic with attempted > 0 and accuracy = correct / attempted,
\* the topic is in strongAreas iff accuracy >= 0.8; otherwise it is in
\* overallWeakAreas with errorRate = 1 - accuracy and priority high iff
\* errorRate >= 0.6, medium iff 0.4 <= errorRate < 0.6, low iff errorRate < 0.4;
\* the topic is in exactly one of the two lists.
ClassifiedByAccuracy ==
    analysis.called =>
        \A topic \in Topics :
            LET t == Attempted(topic)
                c == Correct(topic)
                e == t - c
            IN  t > 0 =>
                  /\ StrongCount(topic) + Cardinality(WeakEntries(topic)) = 1
                  /\ StrongCount(topic) = 1 <=> 5 * c >= 4 * t
                  /\ \A k \in WeakEntries(topic) :
                        LET w == analysis.overallWeakAreas[k]
                        IN  /\ w.errorRate = [num |-> e, den |-> t]
                            /\ w.priority \in {"high", "medium", "low"}
                            /\ w.priority = "high" <=> 5 * e >= 3 * t
                            /\ w.priority = "medium" <=> (5 * e >= 2 * t /\ 5 * e < 3 * t)
                            /\ w.priority = "low" <=> 5 * e < 2 * t

\* Topic "m" with 4 of 5 correct (accuracy 0.8) is strong; topic "k" with 3 of
\* 5 correct (error rate 0.4) is weak with priority medium.
ClassifiedWitness ==
    /\ analysis.called
    /\ Len(pool) = 2
    /\ Attempted(<<"m">>) = 5 /\ Correct(<<"m">>) = 4
    /\ Attempted(<<"k">>) = 5 /\ Correct(<<"k">>) = 3
    /\ analysis.strongAreas = << <<"m">> >>
    /\ Len(analysis.overallWeakAreas) = 1
    /\ analysis.overallWeakAreas[1].chapter = <<"k">>
    /\ analysis.overallWeakAreas[1].priority = "medium"

\* The position in the input of the first deck filed under the topic.
FirstSeen(topic) ==
    CHOOSE i \in DOMAIN pool :
        /\ TopicOf(pool[i]) = topic
        /\ \A j \in 1..(i - 1) : TopicOf(pool[j]) # topic

Tier(w) == CASE w.priority = "high" -> 0 [] w.priority = "medium" -> 1 [] w.priority = "low" -> 2

\* C21: every high-priority weak topic precedes every medium one and every
\* medium precedes every low one, and two weak topics of the same priority
\* appear in the order in which their labels were first encountered in the
\* input decks, for any labels (including labels that look like integers).
WeakSortedByPriorityThenEncounter ==
    analysis.called =>
        \A a, b \in DOMAIN analysis.overallWeakAreas :
            a < b =>
                LET wa == analysis.overallWeakAreas[a]
                    wb == analysis.overallWeakAreas[b]
                IN  /\ Tier(wa) <= Tier(wb)
                    /\ Tier(wa) = Tier(wb) => FirstSeen(wa.chapter) < FirstSeen(wb.chapter)

\* The same statement with the order the code gives equal priorities: labels
\* that are canonical array indices first, ascending, then the other labels
\* in encounter order.
WeakSortedByPriorityThenKeyOrder ==
    analysis.called =>
        \A a, b \in DOMAIN analysis.overallWeakAreas :
            a < b =>
                LET wa == analysis.overallWeakAreas[a]
                    wb == analysis.overallWeakAreas[b]
                IN  /\ Tier(wa) <= Tier(wb)
                    /\ Tier(wa) = Tier(wb) =>
                          \/ isIndexKey(wa.chapter) /\ ~isIndexKey(wb.chapter)
                          \/ /\ isIndexKey(wa.chapter) /\ isIndexKey(wb.chapter)
                             /\ keyNumber(wa.chapter) < keyNumber(wb.chapter)
                          \/ /\ ~isIndexKey(wa.chapter) /\ ~isIndexKey(wb.chapter)
                             /\ FirstSeen(wa.chapter) < FirstSeen(wb.chapter)

\* All cards of the input decks.
InputCards == Concat([d \in DOMAIN pool |-> pool[d].cards])

\* rate(ease) in tenths and round(repetitions x rate), rounding half up.
RateTenths(ease) ==
    CASE ease >= 250 -> 8
      [] ease >= 200 /\ ease < 250 -> 5
      [] ease < 200 -> 2
RoundHalfUpTenths(n) == IF n % 10 >= 5 THEN n \div 10 + 1 ELSE n \div 10
EstimatedCorrect(c) == RoundHalfUpTenths(c.repetitions * RateTenths(c.easeFactor))

RECURSIVE SumOfCorrect(_)
SumOfCorrect(cs) == IF cs = <<>> THEN 0 ELSE EstimatedCorrect(Head(cs)) + SumOfCorrect(Tail(cs))

RECURSIVE SumOfRepetitions(_)
SumOfRepetitions(cs) == IF cs = <<>> THEN 0 ELSE Head(cs).repetitions + SumOfRepetitions(Tail(cs))

\* C22: averageAccuracy equals (sum over all cards of round(repetitions x
\* rate(ease))) / (sum over all cards of repetitions), is 0 when no card has
\* been attempted, and always lies in [0, 1].
AverageAccuracyIsCorrectOverAttempted ==
    analysis.called =>
        LET acc == analysis.averageAccuracy
            n == SumOfCorrect(InputCards)
            d == SumOfRepetitions(InputCards)
        IN  /\ acc.den > 0
            /\ 0 <= acc.num /\ acc.num <= acc.den
            /\ d > 0 => acc.num * d = n * acc.den
            /\ d = 0 => acc.num = 0

\* Two decks: 5 repetitions at ease 2.0 (2.5 rounds up to 3) and 3 repetitions
\* at ease 2.5 (2.4 rounds to 2) give 5/8.
AverageAccuracyWitness ==
    /\ analysis.called
    /\ Len(pool) = 2
    /\ SumOfRepetitions(InputCards) = 8
    /\ \E i \in DOMAIN InputCards :
          InputCards[i].repetitions = 5 /\ InputCards[i].easeFactor = 200
    /\ analysis.averageAccuracy = [num |-> 5, den |-> 8]

\* C23: improvementTrend is 'improving' iff weak topics / topics < 0.3,
\* 'stable' iff the ratio is >= 0.3 and < 0.6, 'declining' iff it is >= 0.6;
\* an empty deck collection gives averageAccuracy 0 and empty lists.
TrendByWeakRatio ==
    analysis.called =>
        LET w == Len(analysis.overallWeakAreas)
            n == Cardinality(Topics)
        IN  /\ analysis.improvementTrend \in {"improving", "stable", "declining"}
            /\ n > 0 =>
                  /\ analysis.improvementTrend = "improving" <=> 10 * w < 3 * n
                  /\ analysis.improvementTrend = "stable" <=> (10 * w >= 3 * n /\ 10 * w < 6 * n)
                  /\ analysis.improvementTrend = "declining" <=> 10 * w >= 6 * n
            /\ pool = <<>> =>
                  /\ analysis.averageAccuracy = [num |-> 0, den |-> 1]
                  /\ analysis.strongAreas = <<>>
                  /\ analysis.overallWeakAreas = <<>>

\* Three weak topics of five: the ratio is exactly 0.6 and the trend 'declining'.
TrendWitness ==
    /\ analysis.called
    /\ Cardinality(Topics) = 5
    /\ Len(analysis.overallWeakAreas) = 3
    /\ analysis.improvementTrend = "declining"

\* The empty deck collection has been analysed.
EmptyCollectionWitness == analysis.called /\ pool = <<>>

----------------------------------------------------------------------------
(* Properties of calculateMetacognitionScore *)

\* C24: for every list of questions and every answers map the returned
\* score is an integer in 0..100.
ScoreInRange == scored => score \in 0..100

Answer(i) == IF i \in DOMAIN answers THEN answers[i] ELSE NoAnswer
IsAnswered(i) == Answer(i).kind # "undefined" /\ Answer(i) # StringAnswer(<<>>)

ScaleOf(q) == IF q.scale = Omitted THEN 5 ELSE q.scale

\* Every rating answer lies between 0 and the scale of its question.
RatingsWithinScale ==
    \A i \in DOMAIN questions :
        (questions[i].type = "rating" /\ Answer(questions[i].id).kind = "number") =>
            (0 <= Answer(questions[i].id).num /\ Answer(questions[i].id).num <= ScaleOf(questions[i]))

\* The same statement for rating answers within their scale: what the code does.
ScoreInRangeForRatingsWithinScale == (scored /\ RatingsWithinScale) => score \in 0..100

\* Every answer given has the type its question asks for.
WellTyped ==
    \A i \in DOMAIN questions :
        IsAnswered(questions[i].id) =>
            Answer(questions[i].id).kind =
                CASE questions[i].type = "rating" -> "number"
                  [] questions[i].type = "yesno" -> "boolean"
                  [] questions[i].type = "selection" -> "string"
                  [] questions[i].type = "text" -> "string"

Listed(q, a) == \E k \in DOMAIN q.options : q.options[k] = a.str
IndexIn(q, a) == (CHOOSE k \in DOMAIN q.options : q.options[k] = a.str) - 1

\* What an answered question adds to D and to N.
AddsToD(q) ==
    CASE q.type = "rating" -> ScaleOf(q)
      [] q.type = "yesno" -> 1
      [] q.type = "selection" -> Len(q.options)
      [] q.type = "text" -> 1
AddsToN(q, a) ==
    CASE q.type = "rating" -> a.num
      [] q.type = "yesno" -> IF a.bool THEN 1 ELSE 0
      [] q.type = "selection" -> IF Listed(q, a) THEN Len(q.options) - IndexIn(q, a) ELSE 0
      [] q.type = "text" -> 1

RECURSIVE SumD(_)
SumD(n) ==
    IF n = 0 THEN 0
    ELSE (IF IsAnswered(questions[n].id) THEN AddsToD(questions[n]) ELSE 0) + SumD(n - 1)

RECURSIVE SumN(_)
SumN(n) ==
    IF n = 0 THEN 0
    ELSE (IF IsAnswered(questions[n].id)
          THEN AddsToN(questions[n], Answer(questions[n].id)) ELSE 0) + SumN(n - 1)

ScoreD == SumD(Len(questions))
ScoreN == SumN(Len(questions))

\* round(100 x n / d), rounding half up
RoundedPercent(n, d) == (200 * n + d) \div (2 * d)

\* One more question, left unanswered (absent or the empty string), gives the
\* same score.
UnansweredQuestionIgnored ==
    \A q \in QuestionKinds(Len(questions) + 1), a \in {NoAnswer, StringAnswer(<<>>)} :
        calculateMetacognitionScore(Append(answers, a), Append(questions, q)) = score

\* C25: the score equals round(100 x N / D), or 0 when D = 0, where only
\* answered questions contribute (rating: answer to N, scale or 5 to D;
\* yes/no: 1 to D, 1 to N iff true; selection of k options: k to D, k - index
\* to N when listed; text: 1 to both); zero answered questions give 0, rating
\* questions all answered at their scale give 100, and adding an unanswered
\* question never changes the score.
ScoreIsRoundedRatio ==
    (scored /\ WellTyped) =>
        /\ score = IF ScoreD = 0 THEN 0 ELSE RoundedPercent(ScoreN, ScoreD)
        /\ (\A i \in DOMAIN questions : ~IsAnswered(questions[i].id)) => score = 0
        /\ (/\ questions # <<>>
            /\ \A i \in DOMAIN questions :
                  /\ questions[i].type = "rating"
                  /\ Answer(questions[i].id) = NumberAnswer(ScaleOf(questions[i]))) =>
               score = 100
        /\ UnansweredQuestionIgnored

\* The same statement away from the quotients whose double product with 100
\* falls below the half: what the code does.
ScoreIsRoundedRatioOfDoubles ==
    (scored /\ WellTyped /\ <<ScoreN, ScoreD>> \notin HalfLost) =>
        /\ score = IF ScoreD = 0 THEN 0 ELSE RoundedPercent(ScoreN, ScoreD)
        /\ (\A i \in DOMAIN questions : ~IsAnswered(questions[i].id)) => score = 0
        /\ (/\ questions # <<>>
            /\ \A i \in DOMAIN questions :
                  /\ questions[i].type = "rating"
                  /\ Answer(questions[i].id) = NumberAnswer(ScaleOf(questions[i]))) =>
               score = 100
        /\ UnansweredQuestionIgnored

----------------------------------------------------------------------------
(* Properties of the core as a whole *)

CalledReview == outcome = "none" /\ outcome' = "returned"

\* C26: no core operation modifies its inputs: after calculateNextReview the
\* input card is as it was and the returned card has the input's id and tags;
\* after getDueCards, sortCardsForStudy, createDeliberatePracticeDeck,
\* createInterleavedDeck and analyzeWeaknessPatterns the card array and the
\* decks hold the same cards in the same order as before the call.
InputsKept ==
    [][/\ cards' = cards
       /\ pool' = pool
       /\ CalledReview => (input' = card /\ card'.id = card.id /\ card'.tags = card.tags)]_vars

\* Every operation has been called and its result differs from its input:
\* the card was rescheduled, the sorted copy has another order than the
\* array, the shuffled deck another order than the pool.
InputsKeptWitness ==
    /\ outcome = "returned" /\ card # input
    /\ queueOp = "sorted" /\ queueOut # queueIn /\ cards = queueIn
    /\ composed = "interleaved" /\ ilConfig.shuffleMode = "random"
    /\ Len(derived) = Len(Concat([d \in DOMAIN pool |-> pool[d].cards]))
    /\ derived # Concat([d \in DOMAIN pool |-> pool[d].cards])
    /\ analysis.called

SameReviewState(a, b) ==
    /\ a.easeFactor = b.easeFactor
    /\ a.interval = b.interval
    /\ a.repetitions = b.repetitions
    /\ a.nextReviewDate = b.nextReviewDate

DerivedAgreesWithSource ==
    \A k \in DOMAIN derived : \A d \in DOMAIN pool : \A j \in DOMAIN pool[d].cards :
        pool[d].cards[j].id = derived[k].id => SameReviewState(derived[k], pool[d].cards[j])

\* C27: after composing a derived deck from a pool and then reviewing cards
\* and storing the returned state in the source deck, every card of the
\* derived deck has the same ease-factor, interval, repetition-count and
\* next-due as the card of that id in its source deck.
DerivedMatchesSource ==
    composed \in {"interleaved", "deliberate"} => DerivedAgreesWithSource

\* The same statement up to the first review: what the code does.
DerivedMatchesSourceBeforeReview ==
    (composed \in {"interleaved", "deliberate"} /\ outcome = "none") => DerivedAgreesWithSource

\* The number of reviews with quality >= 3 at the end of the history.
RECURSIVE TrailingSuccesses(_)
TrailingSuccesses(h) ==
    IF h = <<>> THEN 0
    ELSE IF h[Len(h)] < 3 THEN 0
    ELSE 1 + TrailingSuccesses(SubSeq(h, 1, Len(h) - 1))

\* C28: for a card created with repetition-count 0, after any sequence of
\* reviews with qualities in 0..5 the repetition-count is the number of
\* consecutive reviews with quality >= 3 at the end of the sequence, and
\* within such a run the interval never decreases from one review to the
\* next: 1, 6, then round(interval x ease) >= interval.
RepetitionsCountSuccessRun ==
    /\ card.repetitions = TrailingSuccesses(history)
    /\ TrailingSuccesses(history) = 1 => card.interval = 1
    /\ TrailingSuccesses(history) = 2 => card.interval = 6
    /\ TrailingSuccesses(history) >= 3 =>
           card.interval = (2 * input.interval * input.easeFactor + 100) \div 200
    /\ TrailingSuccesses(history) >= 2 => card.interval >= input.interval

\* A success, a failure (ease 2.5 falls to 1.96), then a run of three
\* successes: the intervals were 1 and 6, the third is round(6 x 1.96) = 12.
SuccessRunWitness ==
    /\ history = <<4, 1, 4, 4, 4>>
    /\ card.repetitions = 3
    /\ input.interval = 6
    /\ input.easeFactor = 196
    /\ card.interval = 12

----------------------------------------------------------------------------
(* Properties of the progress events of the PDF card generator *)

StageRank(stage) ==
    CASE stage = "extracting" -> 1
      [] stage = "analyzing" -> 2
      [] stage = "generating" -> 3
      [] stage = "saving" -> 4
      [] stage = "complete" -> 5
      [] OTHER -> 0

ProgressNonDecreasing ==
    \A i \in 1..(Len(events) - 1) : events[i].progress <= events[i + 1].progress

StagesNeverGoBack ==
    \A i \in 1..(Len(events) - 1) :
        /\ StageRank(events[i].stage) >= 1
        /\ StageRank(events[i].stage) <= StageRank(events[i + 1].stage)

LastEventComplete ==
    (pdfPc = "returned" /\ pdfRun.callback) =>
        /\ Len(events) >= 1
        /\ events[Len(events)] = Event("complete", 100)

\* C29: during one run of generateCardsFromPDF or processLargePDF the events
\* delivered to onProgress have non-decreasing progress values, their
\* stages never go backwards in the order extracting, analyzing, generating,
\* saving, complete, and when the run has returned normally the last event
\* is 'complete' with progress 100.
ProgressEventsOrdered ==
    /\ ProgressNonDecreasing
    /\ StagesNeverGoBack
    /\ LastEventComplete

\* What does hold: the stages never go backwards, a run that returns ends
\* with 'complete' at 100, and the progress value drops at one place only,
\* from the 'generating' event of the caller (45 or 42) to the event of the
\* first chunk of generateCardsFromText (40).
ProgressDropsOnlyAtFirstChunk ==
    /\ StagesNeverGoBack
    /\ LastEventComplete
    /\ \A i \in 1..(Len(events) - 1) :
          events[i].progress > events[i + 1].progress =>
              /\ events[i] = Event("generating", generatingProgress(pdfRun))
              /\ events[i - 1].stage = "analyzing"
              /\ events[i + 1] = Event("generating", 40)

\* A run with a callback, at least one page and cardCount of at least one
\* that has returned: its events hold the drop.
ProgressDropsInEveryGeneratingRun ==
    (pdfPc = "returned" /\ pdfRun.callback /\ pdfRun.totalPages >= 1 /\ pdfRun.cardCount >= 1)
        => ~ProgressNonDecreasing

----------------------------------------------------------------------------
(* Properties of trimContext *)

Trimmed == trimCalled \in {"trimContext", "fetchAIResponse"}

\* the last n elements of s, all of s when it has fewer
LastOf(s, n) == SubSeq(s, Len(s) - Min(n, Len(s)) + 1, Len(s))

IsRecentPart(part, s) == \E n \in 0..Len(s) : part = LastOf(s, n)

\* C30: for every message list and every maxMessages >= 1, trimContext
\* returns at most maxMessages messages; the result holds every system
\* message of the input, and its other messages are the most recent
\* non-system messages of the input in their original order, behind the
\* system messages whenever something was cut; also when the system
\* messages are as many as maxMessages or more.
TrimKeepsSystemWithinLimit ==
    (Trimmed /\ limitOf(maxMessages) >= 1) =>
        /\ Len(trimmed) <= limitOf(maxMessages)
        /\ SelectSeq(trimmed, isSystem) = SelectSeq(messages, isSystem)
        /\ IsRecentPart(SelectSeq(trimmed, isOther), SelectSeq(messages, isOther))
        /\ trimmed # messages =>
              trimmed = SelectSeq(trimmed, isSystem) \o SelectSeq(trimmed, isOther)

\* What does hold: with fewer system messages than maxMessages the result
\* is the system messages followed by the most recent others that fit.
TrimRightWithFewerSystem ==
    (Trimmed /\ Len(SelectSeq(messages, isSystem)) < limitOf(maxMessages)) =>
        /\ Len(trimmed) <= limitOf(maxMessages)
        /\ Len(messages) > limitOf(maxMessages) =>
              trimmed = SelectSeq(messages, isSystem)
                        \o LastOf(SelectSeq(messages, isOther),
                                  limitOf(maxMessages) - Len(SelectSeq(messages, isSystem)))
        /\ Len(messages) <= limitOf(maxMessages) => trimmed = messages

\* With as many system messages as maxMessages, and something to cut, none
\* of the other messages is dropped.
TrimDropsNothingAtLimit ==
    (Trimmed /\ Len(SelectSeq(messages, isSystem)) = limitOf(maxMessages)
             /\ Len(messages) > limitOf(maxMessages)) =>
        /\ Len(trimmed) = Len(messages)
        /\ Len(trimmed) > limitOf(maxMessages)

====
